---- MODULE Spec2Model ----
(***************************************************************************)
(* Pathfinder-MCP: the retrieval client (AonClient) that talks to the      *)
(* Archives of Nethys search index, and the rule calculators layered on    *)
(* top of it (CraftingCalculator).                                         *)
(*                                                                         *)
(* Strings are sequences of atoms; the atom " " is whitespace.  Atoms are  *)
(* case-folded, so the /i flag of the cleaning expression is implicit.     *)
(* Error messages are sequences of message parts, so that "message X       *)
(* carries message Y" is "Y is a suffix of X".                             *)
(***************************************************************************)
EXTENDS Integers, Sequences, FiniteSets, TLC

(***************************************************************************)
(* Bounds of the model                                                     *)
(***************************************************************************)
\* the index holds up to MaxPages full pages (+1 record) of bulk records
MaxPages == 2

(***************************************************************************)
(* Program constants                                                       *)
(***************************************************************************)
pageSize       == 250
searchSize     == 100
defaultFrom    == 0
defaultSize    == 100
maxSize        == 1000
minLevel       == 0
maxLevel       == 25

\* config.targets
targets ==
  { "action", "ancestry", "archetype", "armor", "article", "background",
    "class", "creature", "creature-family", "deity", "equipment", "feat",
    "hazard", "rules", "skill", "shield", "spell", "source", "trait",
    "weapon", "weapon-group" }

\* the default category list of getItemsByLevel
defaultItemCategories ==
  { "armor", "equipment", "shield", "weapon", "siege-weapon", "vehicle" }

\* the must_not list of getItemsByLevel when itemCategories is undefined
excludedCategories ==
  { "creature", "spell", "feat", "hazard", "ritual", "class-feature",
    "ancestry", "class", "archetype", "background", "curse", "disease",
    "kingdom-structure", "kingdom-event", "weather-hazard" }

(***************************************************************************)
(* Generic helpers                                                         *)
(***************************************************************************)
Min(a, b) == IF a < b THEN a ELSE b
Max(a, b) == IF a > b THEN a ELSE b
Range(s)  == { s[i] : i \in 1..Len(s) }
IsSuffix(s, t) ==
  /\ Len(s) <= Len(t)
  /\ SubSeq(t, Len(t) - Len(s) + 1, Len(t)) = s

(***************************************************************************)
(* Strings                                                                 *)
(***************************************************************************)
RECURSIVE TrimLeft(_)
TrimLeft(s) ==
  IF s # <<>> /\ Head(s) = " " THEN TrimLeft(Tail(s)) ELSE s

RECURSIVE TrimRight(_)
TrimRight(s) ==
  IF s # <<>> /\ s[Len(s)] = " " THEN TrimRight(SubSeq(s, 1, Len(s) - 1)) ELSE s

\* trim forgotten
Trim_mut(s) == s

\* String.prototype.trim
Trim(s) == TrimRight(TrimLeft(s))

\* length of the prefix matched by ^What is the |^Tell me about the |^Tell me about
PrefixLen(s) ==
  IF s # <<>> /\ s[1] = "what is the " THEN 1
  ELSE IF Len(s) >= 2 /\ s[1] = "tell me about " /\ s[2] = "the " THEN 2
  ELSE IF s # <<>> /\ s[1] = "tell me about " THEN 1
  ELSE 0

\* the scan of the global replace from position i on: spell\?? anywhere,
\* feat\??$ only when the match ends the string
RECURSIVE Scan(_, _)
Scan(s, i) ==
  IF i > Len(s) THEN <<>>
  ELSE IF s[i] = "spell"
       THEN IF i < Len(s) /\ s[i + 1] = "?" THEN Scan(s, i + 2) ELSE Scan(s, i + 1)
  ELSE IF s[i] = "feat" /\ i = Len(s) THEN <<>>
  ELSE IF s[i] = "feat" /\ i + 1 = Len(s) /\ s[i + 1] = "?" THEN <<>>
  ELSE <<s[i]>> \o Scan(s, i + 1)

\* query.replace(/^What is the |^Tell me about the |^Tell me about |spell\??|feat\??$/gi, '').trim()
CleanQuery(query) == Trim(Scan(query, PrefixLen(query) + 1))

(***************************************************************************)
(* Records of the index                                                    *)
(***************************************************************************)
Num(n)   == [w |-> "#", n |-> n]
Word(w)  == [w |-> w, n |-> 0]

PriceUndef  == [t |-> "undef", n |-> 0, s |-> <<>>]
PriceNum(n) == [t |-> "num", n |-> n, s |-> <<>>]
PriceStr(s) == [t |-> "str", n |-> 0, s |-> s]

NoUrl == [path |-> "", id |-> 0, name |-> ""]
NoFormattedUrl == [name |-> "", url |-> NoUrl]

Item(id, name, category, level, price) ==
  [id |-> id, name |-> name, category |-> category, level |-> level,
   price |-> price, url |-> NoUrl, formatted_url |-> NoFormattedUrl]

\* categoryMap[item.category] || 'rules'
UrlPath(category) ==
  CASE category = "spell" -> "spells"
    [] category = "feat" -> "feats"
    [] category \in { "equipment", "weapon", "armor", "shield", "vehicle",
                      "siege-weapon" } -> "equipment"
    [] category = "class" -> "classes"
    [] category = "ancestry" -> "ancestries"
    [] category = "background" -> "backgrounds"
    [] category = "archetype" -> "archetypes"
    [] category = "creature" -> "monsters"
    [] OTHER -> "rules"

\* https://2e.aonprd.com/<urlPath>.aspx?ID=<itemId>&Name=<formattedName>
constructAonUrl(item) ==
  [path |-> UrlPath(item.category), id |-> item.id, name |-> item.name]

\* if (!item.url) item.url = constructAonUrl(item)
WithUrl(item) ==
  IF item.url = NoUrl THEN [item EXCEPT !.url = constructAonUrl(item)] ELSE item

\* if (item.url && !item.formatted_url) item.formatted_url = `[name](url)`
WithFormattedUrl(item) ==
  IF item.url # NoUrl /\ item.formatted_url = NoFormattedUrl
  THEN [item EXCEPT !.formatted_url = [name |-> item.name, url |-> item.url]]
  ELSE item

\* a formatting that leaves a number as it is
FormatPrice_mut(price) ==
  IF price.t = "undef" THEN PriceStr(<<Word("-")>>) ELSE price

\* undefined becomes the dash, a number n becomes "n gp", a string stays
FormatPrice(price) ==
  IF price.t = "undef" THEN PriceStr(<<Word("-")>>)
  ELSE IF price.t = "num" THEN PriceStr(<<Num(price.n), Word("gp")>>)
  ELSE price

WithPrice(item) == [item EXCEPT !.price = FormatPrice(item.price)]

\* the mapping of a hit in searchCategory, getAllInCategory, getItemsByLevel
NormalizeHit(item) == WithPrice(WithFormattedUrl(WithUrl(item)))

\* the exact branch of getItem adds url and formatted_url, the common tail
\* adds url and price
NormalizeExact(item) == WithPrice(WithUrl(WithFormattedUrl(WithUrl(item))))

\* the fuzzy branch of getItem reaches only the common tail
NormalizeFuzzy(item) == WithPrice(WithUrl(item))

\* hits.map(hit => ...)
NormalizeHits(hits) == [i \in 1..Len(hits) |-> NormalizeHit(hits[i])]

(***************************************************************************)
(* The search index (external collaborator)                                *)
(***************************************************************************)
\* a handful of records of assorted categories, levels and price shapes
Extras ==
  << Item(1, "fireball", "spell", 3, PriceUndef),
     Item(2, "firebolt", "spell", 5, PriceUndef),
     Item(3, "goblin", "creature", 5, PriceUndef),
     Item(4, "power attack", "feat", 1, PriceUndef),
     Item(5, "spike pit", "hazard", 5, PriceUndef),
     Item(6, "backpack", "equipment", 5, PriceStr(<<Num(1), Word("sp")>>)),
     Item(7, "healing potion", "equipment", 3, PriceNum(12)),
     Item(8, "longsword", "weapon", 1, PriceStr(<<Num(10), Word("gp")>>)),
     Item(9, "ballista", "siege-weapon", 5, PriceNum(250)) >>

BulkItem(i) ==
  Item(100 + i, "blade", "weapon", 5,
       IF i % 3 = 0 THEN PriceUndef
       ELSE IF i % 3 = 1 THEN PriceNum(i)
       ELSE PriceStr(<<Num(i), Word("gp")>>))

\* the sizes of the bulk block: around every page boundary up to MaxPages
BulkSizes ==
  { n \in { p * pageSize + d : p \in 0..MaxPages, d \in {-2, -1, 0, 1} } : n >= 0 }

IndexOf(n) == Extras \o [i \in 1..n |-> BulkItem(i)]

\* how the index judges the text clause of a request: the relevance model
\* is the index's own, here one of three verdicts per request
Matchers == { "all", "none", "odd" }

TextMatches(m, r) ==
  CASE m = "all" -> TRUE
    [] m = "none" -> FALSE
    [] OTHER -> r.id % 2 = 1

\* term / terms / must_not clauses of a request
StructMatches(r, req) ==
  /\ r.category \in req.category_in
  /\ r.category \notin req.must_not
  /\ req.hasLevel => r.level = req.level

\* from / size
Page(s, from, size) == SubSeq(s, from + 1, Min(Len(s), from + size))

\* the hits an index that honours the request sends back
Hits(idx, req, m) ==
  Page(SelectSeq(idx, LAMBDA r : StructMatches(r, req)
                                 /\ (req.textKind = "none" \/ TextMatches(m, r))),
       req.from, req.size)

BackendErrors == { "Elasticsearch error", "connect ETIMEDOUT" }

HitsReply(h)    == [kind |-> "hits", hits |-> h, msg |-> <<>>]
MalformedReply  == [kind |-> "malformed", hits |-> <<>>, msg |-> <<>>]
ErrorReply(m)   == [kind |-> "error", hits |-> <<>>, msg |-> <<m>>]

\* what client.search can do with a request: throw, answer without a hits
\* list, or answer the hits of the request
Replies(idx, req) ==
  { ErrorReply(m) : m \in BackendErrors } \cup { MalformedReply }
    \cup { HitsReply(Hits(idx, req, m)) : m \in Matchers }

(***************************************************************************)
(* Requests                                                                *)
(***************************************************************************)
Request(category_in, must_not, hasLevel, level, textKind, text, from, size, sort, min_score) ==
  [category_in |-> category_in, must_not |-> must_not, hasLevel |-> hasLevel,
   level |-> level, textKind |-> textKind, text |-> text, from |-> from,
   size |-> size, sort |-> sort, min_score |-> min_score]

\* buildSearchQuery: spell and feat get phrase-or-multi_match with a category
\* filter, every other category a must of category term and multi_match
buildSearchQuery(category, query) ==
  IF category = "spell" \/ category = "feat"
  THEN [category_in |-> {category}, textKind |-> "phrase_or_multi", text |-> query]
  ELSE [category_in |-> {category}, textKind |-> "multi", text |-> query]

SearchRequest(category, cleanQuery) ==
  LET q == buildSearchQuery(category, cleanQuery)
  IN  Request(q.category_in, {}, FALSE, 0, q.textKind, q.text, 0, searchSize, FALSE, 5)

ExactRequest(category, trimmedName) ==
  Request({category}, {}, FALSE, 0, "phrase", trimmedName, 0, 1, FALSE, 0)

\* the fallback repeats the phrase query
FuzzyRequest_mut(category, trimmedName) ==
  Request({category}, {}, FALSE, 0, "phrase", trimmedName, 0, 1, FALSE, 0)

FuzzyRequest(category, trimmedName) ==
  Request({category}, {}, FALSE, 0, "fuzzy_and", trimmedName, 0, 1, FALSE, 0)

AllInCategoryRequest(category, from, size) ==
  Request({category}, {}, FALSE, 0, "none", <<>>, from, size, TRUE, 0)

\* the must_not list of getItemsByLevel
LevelMustNot(hasCats, cats) ==
  IF ~hasCats THEN excludedCategories
  ELSE IF "creature" \notin Range(cats) THEN {"creature"} ELSE {}

\* an empty list is taken as a list
LevelCategories_mut(hasCats, cats) ==
  IF hasCats THEN Range(cats) ELSE defaultItemCategories

\* the category clause of getItemsByLevel: the given list, or the default
LevelCategories(hasCats, cats) ==
  IF hasCats /\ Len(cats) > 0 THEN Range(cats) ELSE defaultItemCategories

LevelRequest(level, hasCats, cats, from) ==
  Request(LevelCategories(hasCats, cats), LevelMustNot(hasCats, cats), TRUE, level,
          "none", <<>>, from, pageSize, TRUE, 0)

(***************************************************************************)
(* Outcomes                                                                *)
(***************************************************************************)
NoOutcome      == [kind |-> "none", name |-> "", msg |-> <<>>, items |-> <<>>]
Returned(items) == [kind |-> "ok", name |-> "", msg |-> <<>>, items |-> items]
ReturnedNull   == [kind |-> "null", name |-> "", msg |-> <<>>, items |-> <<>>]
Thrown(name, msg) == [kind |-> "error", name |-> name, msg |-> msg, items |-> <<>>]

\* new InvalidCategoryError(`Category '${category}' is not valid. Valid categories are: ...`)
InvalidCategoryError(category) ==
  Thrown("InvalidCategoryError",
         <<"Invalid category: ", "Category '", category,
           "' is not valid. Valid categories are: ", "config.targets">>)

\* the default item categories pass as well
validateCategory_mut(category) == category \in targets \cup defaultItemCategories

\* validateCategory: does the category pass
validateCategory(category) == category \in targets

InvalidResponse == <<"Invalid response from Elasticsearch">>

(***************************************************************************)
(* Crafting reference data (crafting-data.ts)                              *)
(*                                                                         *)
(* Money is counted in units of 1/200 gp, so that half the price of an     *)
(* item priced in copper is still a whole number; days are counted in half *)
(* days, the 4-hour craft being the only fraction the calculator returns.  *)
(* Levels of the income table are doubled, so that its 20.5 row is 41.     *)
(***************************************************************************)
GpUnits  == 200
DayUnits == 2

DCS_BY_LEVEL ==
  [l \in 0..20 |->
     CASE l = 0 -> 14 [] l = 1 -> 15 [] l = 2 -> 16 [] l = 3 -> 18
       [] l = 4 -> 19 [] l = 5 -> 20 [] l = 6 -> 22 [] l = 7 -> 23
       [] l = 8 -> 24 [] l = 9 -> 26 [] l = 10 -> 27 [] l = 11 -> 28
       [] l = 12 -> 30 [] l = 13 -> 31 [] l = 14 -> 32 [] l = 15 -> 34
       [] l = 16 -> 35 [] l = 17 -> 36 [] l = 18 -> 38 [] l = 19 -> 39
       [] OTHER -> 40]

RARITY_DC_ADJUSTMENTS ==
  [common |-> 0, uncommon |-> 2, rare |-> 5, unique |-> 10]

Income(level2, trained, expert, master, legendary) ==
  [level2 |-> level2, trained |-> trained, expert |-> expert,
   master |-> master, legendary |-> legendary]

\* the rows of INCOME_EARNED, values in copper, the level doubled
INCOME_EARNED ==
  << Income(0, 5, 5, 5, 5),
     Income(2, 20, 20, 20, 20),
     Income(4, 30, 30, 30, 30),
     Income(6, 50, 50, 50, 50),
     Income(8, 70, 80, 80, 80),
     Income(10, 90, 100, 100, 100),
     Income(12, 150, 200, 200, 200),
     Income(14, 200, 250, 250, 250),
     Income(16, 250, 300, 300, 300),
     Income(18, 300, 400, 400, 400),
     Income(20, 400, 500, 600, 600),
     Income(22, 500, 600, 800, 800),
     Income(24, 600, 800, 1000, 1000),
     Income(26, 700, 1000, 1500, 1500),
     Income(28, 800, 1500, 2000, 2000),
     Income(30, 1000, 2000, 2800, 2800),
     Income(32, 1300, 2500, 3600, 4000),
     Income(34, 1500, 3000, 4500, 5500),
     Income(36, 2000, 4500, 7000, 9000),
     Income(38, 3000, 6000, 10000, 13000),
     Income(40, 4000, 7500, 15000, 20000),
     Income(41, 5000, 9000, 17500, 30000) >>

\* the keys of CRAFTING_FEAT_REQUIREMENTS in insertion order, with their feats
CRAFTING_FEAT_REQUIREMENTS ==
  << <<"armor", <<"Magical Crafting">> >>,
     <<"equipment", <<"Magical Crafting">> >>,
     <<"shield", <<"Magical Crafting">> >>,
     <<"weapon", <<"Magical Crafting">> >>,
     <<"wand", <<"Magical Crafting">> >>,
     <<"staff", <<"Magical Crafting">> >>,
     <<"ring", <<"Magical Crafting">> >>,
     <<"worn-item", <<"Magical Crafting">> >>,
     <<"rune", <<"Magical Crafting">> >>,
     <<"alchemical", <<"Alchemical Crafting">> >>,
     <<"elixir", <<"Alchemical Crafting">> >>,
     <<"bomb", <<"Alchemical Crafting">> >>,
     <<"mutagen", <<"Alchemical Crafting">> >>,
     <<"poison", <<"Alchemical Crafting">> >>,
     <<"snare", <<"Snare Crafting">> >>,
     <<"trap", <<"Snare Crafting">> >>,
     <<"scroll", <<"Scroll Crafting", "Magical Crafting">> >>,
     <<"magic-tattoo", <<"Magical Tattoo", "Magical Crafting">> >> >>

\* COMPLEX_CRAFTING_SETUP_TIME, in days
COMPLEX_CRAFTING_SETUP_TIME(levelDiffKey) ==
  CASE levelDiffKey = "equal" -> [consumable |-> 4, permanent |-> 6]
    [] levelDiffKey = "1-2below" -> [consumable |-> 3, permanent |-> 5]
    [] OTHER -> [consumable |-> 2, permanent |-> 4]

RushProficiencies == { "trained", "expert", "master", "legendary" }

RUSH_REDUCTIONS ==
  [p \in RushProficiencies |->
     CASE p = "trained" -> [days |-> 0, dcIncrease |-> 0]
       [] p = "expert" -> [days |-> 1, dcIncrease |-> 5]
       [] p = "master" -> [days |-> 2, dcIncrease |-> 10]
       [] OTHER -> [days |-> 3, dcIncrease |-> 15]]

(***************************************************************************)
(* CraftingCalculator                                                      *)
(***************************************************************************)
\* the position of the first '<number> <unit>' in a price string, 0 if none:
\* /(\d+(\.\d+)?)\s*(cp|sp|gp)/i
UnitMatch(s) ==
  LET at == { i \in 1..(Len(s) - 1) : s[i].w = "#" /\ s[i + 1].w \in {"cp", "sp", "gp"} }
  IN  IF at = {} THEN 0 ELSE CHOOSE i \in at : \A j \in at : i <= j

\* the position of the first number in a price string, 0 if none: /(\d+(\.\d+)?)/
NumericMatch(s) ==
  LET at == { i \in 1..Len(s) : s[i].w = "#" }
  IN  IF at = {} THEN 0 ELSE CHOOSE i \in at : \A j \in at : i <= j

\* parsePrice, the result in units of 1/200 gp
parsePrice(price) ==
  IF price.t = "undef" THEN 0
  ELSE IF price.t = "num" THEN price.n * GpUnits
  ELSE LET m == UnitMatch(price.s)
           k == NumericMatch(price.s)
       IN  IF m # 0
           THEN IF price.s[m + 1].w = "cp" THEN (price.s[m].n * GpUnits) \div 100
                ELSE IF price.s[m + 1].w = "sp" THEN (price.s[m].n * GpUnits) \div 10
                ELSE price.s[m].n * GpUnits
           ELSE IF k # 0 THEN price.s[k].n * GpUnits
           ELSE 0

consumableCategories ==
  { "potion", "scroll", "talisman", "oil", "elixir", "bomb", "ammunition",
    "snare", "poison", "consumable" }

\* the category string of a crafting item is a sequence of atoms, so that
\* String.includes(key) is "key is one of the atoms"
IsCategory(category, key) == category = <<key>>
Includes(category, key) == key \in Range(category)

isConsumable(item) ==
  IF item.hasTraits THEN "consumable" \in item.traits
  ELSE \E c \in consumableCategories : IsCategory(item.category, c)

determineRarity(item) ==
  IF item.hasTraits /\ "rare" \in item.traits THEN "rare"
  ELSE IF item.hasTraits /\ "uncommon" \in item.traits THEN "uncommon"
  ELSE IF item.hasTraits /\ "unique" \in item.traits THEN "unique"
  ELSE "common"

checkProficiencyRequirement(itemLevel, proficiency) ==
  IF itemLevel >= 16 /\ proficiency # "legendary" THEN FALSE
  ELSE IF itemLevel >= 9 /\ proficiency \notin {"master", "legendary"} THEN FALSE
  ELSE TRUE

determineRequiredFeats(category) ==
  LET T == CRAFTING_FEAT_REQUIREMENTS
      direct  == { i \in 1..Len(T) : IsCategory(category, T[i][1]) }
      partial == { i \in 1..Len(T) : Includes(category, T[i][1]) }
  IN  IF category = <<>> THEN <<>>
      ELSE IF direct # {} THEN T[CHOOSE i \in direct : TRUE][2]
      ELSE IF partial # {} THEN T[CHOOSE i \in partial : \A j \in partial : i <= j][2]
      ELSE <<"Magical Crafting">>

checkFeats(requiredFeats, characterFeats) ==
  \A i \in 1..Len(requiredFeats) : requiredFeats[i] \in characterFeats

\* RUSH_REDUCTIONS[proficiency]?.days || 0
RushDaysAllowed(proficiency) ==
  IF proficiency \in DOMAIN RUSH_REDUCTIONS THEN RUSH_REDUCTIONS[proficiency].days ELSE 0

\* RUSH_REDUCTIONS[proficiency]?.dcIncrease || 0
RushDCPerDay(proficiency) ==
  IF proficiency \in DOMAIN RUSH_REDUCTIONS THEN RUSH_REDUCTIONS[proficiency].dcIncrease ELSE 0

\* the rushed consumable keeps its reduced time, the four-hour case is missing
calculateCraftingTime_mut(itemLevel, characterLevel, useComplexCrafting, consumable, rushDays, proficiency) ==
  IF ~useComplexCrafting THEN DayUnits * Max(1, 4 - rushDays)
  ELSE LET levelDiffKey == IF itemLevel >= characterLevel THEN "equal"
                           ELSE IF characterLevel - itemLevel <= 2 THEN "1-2below"
                           ELSE "3+below"
           baseTime == IF consumable
                       THEN COMPLEX_CRAFTING_SETUP_TIME(levelDiffKey).consumable
                       ELSE COMPLEX_CRAFTING_SETUP_TIME(levelDiffKey).permanent
       IN  IF rushDays > 0
           THEN DayUnits * (baseTime - Min(rushDays, RushDaysAllowed(proficiency)))
           ELSE DayUnits * baseTime

\* calculateCraftingTime, the result in half days
calculateCraftingTime(itemLevel, characterLevel, useComplexCrafting, consumable, rushDays, proficiency) ==
  IF ~useComplexCrafting THEN DayUnits * Max(1, 4 - rushDays)
  ELSE LET levelDiffKey == IF itemLevel >= characterLevel THEN "equal"
                           ELSE IF characterLevel - itemLevel <= 2 THEN "1-2below"
                           ELSE "3+below"
           baseTime == IF consumable
                       THEN COMPLEX_CRAFTING_SETUP_TIME(levelDiffKey).consumable
                       ELSE COMPLEX_CRAFTING_SETUP_TIME(levelDiffKey).permanent
           reducedTime == IF rushDays > 0
                          THEN baseTime - Min(rushDays, RushDaysAllowed(proficiency))
                          ELSE baseTime
       IN  IF rushDays > 0 /\ consumable /\ reducedTime <= 0
           THEN 1
           ELSE DayUnits * reducedTime

\* the last row of the table is missed
LevelDC_mut(itemLevel) ==
  IF itemLevel \in 0..19 THEN DCS_BY_LEVEL[itemLevel] ELSE 14

\* DCS_BY_LEVEL[itemLevel] || 14
LevelDC(itemLevel) ==
  IF itemLevel \in DOMAIN DCS_BY_LEVEL THEN DCS_BY_LEVEL[itemLevel] ELSE 14

\* RARITY_DC_ADJUSTMENTS[rarity.toLowerCase()] || 0
RarityAdjustment(rarity) ==
  IF rarity \in DOMAIN RARITY_DC_ADJUSTMENTS THEN RARITY_DC_ADJUSTMENTS[rarity] ELSE 0

calculateDC(itemLevel, rarity) == LevelDC(itemLevel) + RarityAdjustment(rarity)

\* the rush days are not capped
getRushPenalty_mut(proficiency, rushDays) == rushDays * RushDCPerDay(proficiency)

getRushPenalty(proficiency, rushDays) ==
  Min(rushDays, RushDaysAllowed(proficiency)) * RushDCPerDay(proficiency)

adjustDC(baseDC, rushDays, proficiency) ==
  IF rushDays <= 0 THEN baseDC ELSE baseDC + getRushPenalty(proficiency, rushDays)

\* calculateDailyReduction, the result in units of 1/200 gp
calculateDailyReduction(characterLevel, proficiency) ==
  LET boundedLevel == Min(20, Max(0, characterLevel))
      rows == { i \in 1..Len(INCOME_EARNED) : INCOME_EARNED[i].level2 = 2 * boundedLevel }
  IN  IF rows = {} THEN GpUnits
      ELSE LET incomeRow == INCOME_EARNED[CHOOSE i \in rows : \A j \in rows : i <= j]
               copperValue == CASE proficiency = "legendary" -> incomeRow.legendary
                                [] proficiency = "master" -> incomeRow.master
                                [] proficiency = "expert" -> incomeRow.expert
                                [] OTHER -> incomeRow.trained
           IN  (copperValue * GpUnits) \div 100

\* Math.ceil(a / b) for a >= 0, b > 0
CeilDiv(a, b) == (a + b - 1) \div b

\* a crafting item: the fields of an AonItem the calculator reads
CraftItem(category, hasLevel, level, price, hasTraits, traits) ==
  [category |-> category, hasLevel |-> hasLevel, level |-> level, price |-> price,
   hasTraits |-> hasTraits, traits |-> traits]

CraftingOptions(characterLevel, proficiency, feats, useComplexCrafting, rushDays) ==
  [characterLevel |-> characterLevel, proficiency |-> proficiency, feats |-> feats,
   useComplexCrafting |-> useComplexCrafting, rushDays |-> rushDays]

\* calculateRequirements; the four narrative strings render materialCost,
\* daysToFree and criticalDaysToFree and are left out
calculateRequirements(item, options) ==
  LET itemLevel == IF item.hasLevel THEN item.level ELSE 0
      itemPrice == parsePrice(item.price)
      itemRarity == determineRarity(item)
      consumable == isConsumable(item)
      characterLevel == options.characterLevel
      requiredFeats == determineRequiredFeats(item.category)
      baseDC == calculateDC(itemLevel, itemRarity)
      materialCost == itemPrice \div 2
      dailyReduction == calculateDailyReduction(characterLevel, options.proficiency)
      criticalDailyReduction == calculateDailyReduction(characterLevel + 1, options.proficiency)
  IN  [ item |-> [level |-> itemLevel, price |-> itemPrice, rarity |-> itemRarity,
                  category |-> item.category, isConsumable |-> consumable],
        prerequisites |->
          [meetsLevelRequirement |-> characterLevel >= itemLevel,
           meetsProficiencyRequirement |->
             checkProficiencyRequirement(itemLevel, options.proficiency),
           requiredFeats |-> requiredFeats,
           hasRequiredFeats |-> checkFeats(requiredFeats, options.feats),
           missingFeats |-> SelectSeq(requiredFeats, LAMBDA f : f \notin options.feats)],
        crafting |->
          [initialDays |-> calculateCraftingTime(itemLevel, characterLevel,
                             options.useComplexCrafting, consumable,
                             options.rushDays, options.proficiency),
           materialCost |-> materialCost,
           dc |-> adjustDC(baseDC, options.rushDays, options.proficiency),
           dailyReduction |-> dailyReduction,
           criticalDailyReduction |-> criticalDailyReduction,
           daysToFree |-> IF materialCost > 0 THEN CeilDiv(materialCost, dailyReduction) ELSE 0,
           criticalDaysToFree |->
             IF materialCost > 0 THEN CeilDiv(materialCost, criticalDailyReduction) ELSE 0,
           rushPenalty |-> IF options.rushDays > 0
                           THEN getRushPenalty(options.proficiency, options.rushDays)
                           ELSE 0] ]

(***************************************************************************)
(* Treasure reference data (treasure-by-level.ts)                          *)
(***************************************************************************)
Entry(level, quantity) == [level |-> level, quantity |-> quantity]

TreasureBudget(level, totalValue, permanentItems, consumables, partyCurrency, currencyPerAdditionalPC) ==
  [level |-> level, totalValue |-> totalValue,
   permanentItems |-> permanentItems, consumables |-> consumables,
   partyCurrency |-> partyCurrency,
   currencyPerAdditionalPC |-> currencyPerAdditionalPC]

\* the rows of levels 2 to 19 have the same shape: two permanent items of
\* level + 1 and of level, two consumables of level + 1, level and level - 1
TREASURE_BY_LEVEL ==
  << TreasureBudget(1, 175, <<Entry(2, 2), Entry(1, 2)>>,
                    <<Entry(2, 2), Entry(1, 3)>>, 40, 10),
     TreasureBudget(2, 300, <<Entry(3, 2), Entry(2, 2)>>,
                    <<Entry(3, 2), Entry(2, 2), Entry(1, 2)>>, 70, 18),
     TreasureBudget(3, 500, <<Entry(4, 2), Entry(3, 2)>>,
                    <<Entry(4, 2), Entry(3, 2), Entry(2, 2)>>, 120, 30),
     TreasureBudget(4, 850, <<Entry(5, 2), Entry(4, 2)>>,
                    <<Entry(5, 2), Entry(4, 2), Entry(3, 2)>>, 200, 50),
     TreasureBudget(5, 1350, <<Entry(6, 2), Entry(5, 2)>>,
                    <<Entry(6, 2), Entry(5, 2), Entry(4, 2)>>, 320, 80),
     TreasureBudget(6, 2000, <<Entry(7, 2), Entry(6, 2)>>,
                    <<Entry(7, 2), Entry(6, 2), Entry(5, 2)>>, 500, 125),
     TreasureBudget(7, 2900, <<Entry(8, 2), Entry(7, 2)>>,
                    <<Entry(8, 2), Entry(7, 2), Entry(6, 2)>>, 720, 180),
     TreasureBudget(8, 4000, <<Entry(9, 2), Entry(8, 2)>>,
                    <<Entry(9, 2), Entry(8, 2), Entry(7, 2)>>, 1000, 250),
     TreasureBudget(9, 5700, <<Entry(10, 2), Entry(9, 2)>>,
                    <<Entry(10, 2), Entry(9, 2), Entry(8, 2)>>, 1400, 350),
     TreasureBudget(10, 8000, <<Entry(11, 2), Entry(10, 2)>>,
                    <<Entry(11, 2), Entry(10, 2), Entry(9, 2)>>, 2000, 500),
     TreasureBudget(11, 11500, <<Entry(12, 2), Entry(11, 2)>>,
                    <<Entry(12, 2), Entry(11, 2), Entry(10, 2)>>, 2800, 700),
     TreasureBudget(12, 16500, <<Entry(13, 2), Entry(12, 2)>>,
                    <<Entry(13, 2), Entry(12, 2), Entry(11, 2)>>, 4000, 1000),
     TreasureBudget(13, 25000, <<Entry(14, 2), Entry(13, 2)>>,
                    <<Entry(14, 2), Entry(13, 2), Entry(12, 2)>>, 6000, 1500),
     TreasureBudget(14, 36500, <<Entry(15, 2), Entry(14, 2)>>,
                    <<Entry(15, 2), Entry(14, 2), Entry(13, 2)>>, 9000, 2250),
     TreasureBudget(15, 54500, <<Entry(16, 2), Entry(15, 2)>>,
                    <<Entry(16, 2), Entry(15, 2), Entry(14, 2)>>, 13000, 3250),
     TreasureBudget(16, 82500, <<Entry(17, 2), Entry(16, 2)>>,
                    <<Entry(17, 2), Entry(16, 2), Entry(15, 2)>>, 20000, 5000),
     TreasureBudget(17, 128000, <<Entry(18, 2), Entry(17, 2)>>,
                    <<Entry(18, 2), Entry(17, 2), Entry(16, 2)>>, 30000, 7500),
     TreasureBudget(18, 208000, <<Entry(19, 2), Entry(18, 2)>>,
                    <<Entry(19, 2), Entry(18, 2), Entry(17, 2)>>, 48000, 12000),
     TreasureBudget(19, 355000, <<Entry(20, 2), Entry(19, 2)>>,
                    <<Entry(20, 2), Entry(19, 2), Entry(18, 2)>>, 80000, 20000),
     TreasureBudget(20, 490000, <<Entry(20, 4)>>,
                    <<Entry(20, 4), Entry(19, 2)>>, 140000, 35000) >>

(***************************************************************************)
(* Encounter reference data (calculateEncounterXP.ts)                      *)
(***************************************************************************)
CREATURE_XP ==
  [d \in -4..4 |->
    CASE d = -4 -> 10 [] d = -3 -> 15 [] d = -2 -> 20 [] d = -1 -> 30
      [] d = 0 -> 40 [] d = 1 -> 60 [] d = 2 -> 80 [] d = 3 -> 120
      [] d = 4 -> 160]

SIMPLE_HAZARD_XP ==
  [d \in -4..4 |->
    CASE d = -4 -> 2 [] d = -3 -> 3 [] d = -2 -> 4 [] d = -1 -> 6
      [] d = 0 -> 8 [] d = 1 -> 12 [] d = 2 -> 16 [] d = 3 -> 24
      [] d = 4 -> 32]

COMPLEX_HAZARD_XP ==
  [d \in -4..4 |->
    CASE d = -4 -> 10 [] d = -3 -> 15 [] d = -2 -> 20 [] d = -1 -> 30
      [] d = 0 -> 40 [] d = 1 -> 60 [] d = 2 -> 80 [] d = 3 -> 120
      [] d = 4 -> 160]

(***************************************************************************)
(* The static reference tables of the rule calculators: module-level       *)
(* objects that every call reads and that any call could write             *)
(***************************************************************************)
StaticTables ==
  [TREASURE_BY_LEVEL |-> TREASURE_BY_LEVEL,
   CREATURE_XP |-> CREATURE_XP,
   SIMPLE_HAZARD_XP |-> SIMPLE_HAZARD_XP,
   COMPLEX_HAZARD_XP |-> COMPLEX_HAZARD_XP,
   DCS_BY_LEVEL |-> DCS_BY_LEVEL,
   RARITY_DC_ADJUSTMENTS |-> RARITY_DC_ADJUSTMENTS,
   INCOME_EARNED |-> INCOME_EARNED,
   RUSH_REDUCTIONS |-> RUSH_REDUCTIONS]

(***************************************************************************)
(* TreasureGenerator.calculateTreasureBudget                               *)
(***************************************************************************)
\* a level the table has no row for is clamped to the nearest row
FindBudget_mut(table, partyLevel) == Max(1, Min(Len(table), partyLevel))

\* TREASURE_BY_LEVEL.find(budget => budget.level === partyLevel): the index
\* of the first row of that level, 0 when there is none
FindBudget(table, partyLevel) ==
  IF \E i \in 1..Len(table) : table[i].level = partyLevel
  THEN CHOOSE i \in 1..Len(table) :
         /\ table[i].level = partyLevel
         /\ \A j \in 1..(i - 1) : table[j].level # partyLevel
  ELSE 0

\* the party size the scaling factor is relative to
standardPartySize == 4

\* scalingFactor <= 0.75 || scalingFactor >= 1.25, the factor being
\* partySize / 4: compared in quarters
SignificantScaling(partySize) ==
  partySize # standardPartySize /\ (partySize <= 3 \/ partySize >= 5)

\* the scaled quantity is truncated
RoundScaled_mut(quantity, partySize) == (quantity * partySize) \div standardPartySize

\* Math.round(quantity * scalingFactor): the nearest integer, halves up
RoundScaled(quantity, partySize) ==
  (2 * quantity * partySize + standardPartySize) \div (2 * standardPartySize)

\* Math.max(1, Math.round(item.quantity * scalingFactor))
ScaleItems(items, partySize) ==
  [i \in 1..Len(items) |->
     [items[i] EXCEPT !.quantity = Max(1, RoundScaled(items[i].quantity, partySize))]]

AdjustItems(items, partySize) ==
  IF SignificantScaling(partySize) THEN ScaleItems(items, partySize) ELSE items

\* sandbox: one more entry of the first consumable
SandboxConsumables_mut(items, isSandbox) ==
  IF isSandbox /\ items # <<>> THEN Append(items, items[1]) ELSE items

\* sandbox: the first two consumable entries get one more
SandboxConsumables(items, isSandbox) ==
  IF isSandbox
  THEN [i \in 1..Len(items) |->
          IF i - 1 < 2 THEN [items[i] EXCEPT !.quantity = items[i].quantity + 1]
          ELSE items[i]]
  ELSE items

\* the difference is taken the wrong way round
SizeAdjustment_mut(partySize) == standardPartySize - partySize

\* const sizeAdjustment = partySize - 4
SizeAdjustment(partySize) == partySize - standardPartySize

\* the sandbox campaign adds nothing to the currency
SandboxAdjustment_mut(baseBudget, isSandbox) == 0

\* the sandbox campaign adds the currency of one more player
SandboxAdjustment(baseBudget, isSandbox) ==
  IF isSandbox THEN baseBudget.currencyPerAdditionalPC ELSE 0

NullBudget == TreasureBudget(0, 0, <<>>, <<>>, 0, 0)

\* what calculateTreasureBudget returns: null, or a budget
BudgetNull == [null |-> TRUE, budget |-> NullBudget]
BudgetOf(budget) == [null |-> FALSE, budget |-> budget]

calculateTreasureBudgetOf(table, partyLevel, partySize, isSandbox) ==
  LET found == FindBudget(table, partyLevel) IN
  IF found = 0 THEN BudgetNull
  ELSE
    LET baseBudget == table[found]
        sizeAdjustment == SizeAdjustment(partySize)
        adjustedCurrency ==
          baseBudget.partyCurrency + sizeAdjustment * baseBudget.currencyPerAdditionalPC
    IN BudgetOf(
         [baseBudget EXCEPT
            !.permanentItems = AdjustItems(baseBudget.permanentItems, partySize),
            !.consumables =
              SandboxConsumables(AdjustItems(baseBudget.consumables, partySize), isSandbox),
            !.partyCurrency = adjustedCurrency + SandboxAdjustment(baseBudget, isSandbox)])

\* the call as a caller sees it: the table is the module's own
calculateTreasureBudget(partyLevel, partySize, isSandbox) ==
  calculateTreasureBudgetOf(TREASURE_BY_LEVEL, partyLevel, partySize, isSandbox)

\* what a call writes to the tables: the adjusted entries and currency land
\* in the row that was found
TablesAfterBudget_mut(tables, partyLevel, partySize, isSandbox) ==
  LET found == FindBudget(tables.TREASURE_BY_LEVEL, partyLevel) IN
  IF found = 0 THEN tables
  ELSE [tables EXCEPT !.TREASURE_BY_LEVEL[found] =
          calculateTreasureBudgetOf(tables.TREASURE_BY_LEVEL, partyLevel,
                                    partySize, isSandbox).budget]

\* what a call writes to the tables: nothing, the arrays are copied
\* ([...baseBudget.permanentItems]), map builds new arrays, the entries and
\* the result are spread into new objects
TablesAfterBudget(tables, partyLevel, partySize, isSandbox) == tables

(***************************************************************************)
(* calculateEncounterXP                                                    *)
(***************************************************************************)
ThreatEntry(name, level, count, type) ==
  [name |-> name, level |-> level, count |-> count, type |-> type]

\* table[clampedDiff] || fallback
XpLookup(table, clampedDiff, fallback) ==
  IF clampedDiff \in DOMAIN table /\ table[clampedDiff] # 0
  THEN table[clampedDiff] ELSE fallback

\* the level difference is used as it is
ClampDiff_mut(levelDiff) == levelDiff

\* Math.max(-4, Math.min(4, levelDiff))
ClampDiff(levelDiff) == Max(-4, Min(4, levelDiff))

XpPerUnit(tables, type, clampedDiff) ==
  CASE type = "simple_hazard" -> XpLookup(tables.SIMPLE_HAZARD_XP, clampedDiff, 8)
    [] type = "complex_hazard" -> XpLookup(tables.COMPLEX_HAZARD_XP, clampedDiff, 40)
    [] OTHER -> XpLookup(tables.CREATURE_XP, clampedDiff, 40)

ThreatXP(tables, threat, partyLevel) ==
  LET levelDiff == threat.level - partyLevel
      xpPerUnit == XpPerUnit(tables, threat.type, ClampDiff(levelDiff))
  IN [name |-> threat.name, level |-> threat.level, count |-> threat.count,
      type |-> threat.type, xpPerUnit |-> xpPerUnit,
      totalXP |-> xpPerUnit * threat.count, levelDiff |-> levelDiff]

\* threatXP.reduce((sum, t) => sum + t.totalXP, 0)
RECURSIVE SumTotalXP(_)
SumTotalXP(threatXP) ==
  IF threatXP = <<>> THEN 0
  ELSE SumTotalXP(SubSeq(threatXP, 1, Len(threatXP) - 1))
       + threatXP[Len(threatXP)].totalXP

\* the budgets are those of a party of four, whatever the party size
AdjustedBudgets_mut(partySize) ==
  [trivial |-> 40, low |-> 60, moderate |-> 80, severe |-> 120, extreme |-> 160]

AdjustedBudgets(partySize) ==
  LET sizeAdjustment == (partySize - 4) * 20 IN
  [trivial |-> 40 + sizeAdjustment, low |-> 60 + sizeAdjustment,
   moderate |-> 80 + sizeAdjustment, severe |-> 120 + sizeAdjustment,
   extreme |-> 160 + sizeAdjustment]

Difficulty(totalXP, adjustedBudgets) ==
  IF totalXP <= adjustedBudgets.trivial THEN "Trivial"
  ELSE IF totalXP <= adjustedBudgets.low THEN "Low"
  ELSE IF totalXP <= adjustedBudgets.moderate THEN "Moderate"
  ELSE IF totalXP <= adjustedBudgets.severe THEN "Severe"
  ELSE IF totalXP <= adjustedBudgets.extreme THEN "Extreme"
  ELSE "DEADLY"

\* the values the text of the answer is formatted from
calculateEncounterXPOf(tables, partyLevel, partySize, threats) ==
  LET threatXP == [i \in 1..Len(threats) |-> ThreatXP(tables, threats[i], partyLevel)]
      totalXP == SumTotalXP(threatXP)
      adjustedBudgets == AdjustedBudgets(partySize)
  IN [threatXP |-> threatXP, totalXP |-> totalXP,
      difficulty |-> Difficulty(totalXP, adjustedBudgets),
      adjustedBudgets |-> adjustedBudgets]

calculateEncounterXP(partyLevel, partySize, threats) ==
  calculateEncounterXPOf(StaticTables, partyLevel, partySize, threats)

\* what a call writes to the tables: nothing, the tables are only indexed
TablesAfterEncounter(tables, partyLevel, partySize, threats) == tables

\* what calculateRequirements writes to the tables: nothing, the calculator
\* only indexes DCS_BY_LEVEL, RARITY_DC_ADJUSTMENTS, INCOME_EARNED and
\* RUSH_REDUCTIONS
TablesAfterCraft(tables, item, options) == tables

(***************************************************************************)
(* buildEncounter: creatures of the search, suggestions, the output text   *)
(***************************************************************************)
XP_BUDGETS ==
  [trivial |-> 40, low |-> 60, moderate |-> 80, severe |-> 120, extreme |-> 160]

Difficulties == DOMAIN XP_BUDGETS

\* creature XP by level relative to party, -4..4
CREATURE_XP_BY_LEVEL_DIFF ==
  [d \in -4..4 |->
     CASE d = -4 -> 10 [] d = -3 -> 15 [] d = -2 -> 20 [] d = -1 -> 30 [] d = 0 -> 40
       [] d = 1 -> 60 [] d = 2 -> 80 [] d = 3 -> 120 [] OTHER -> 160]

getLevelRange(partyLevel, difficulty) ==
  CASE difficulty = "trivial"  -> [min |-> partyLevel - 4, max |-> partyLevel - 2]
    [] difficulty = "low"      -> [min |-> partyLevel - 3, max |-> partyLevel - 1]
    [] difficulty = "moderate" -> [min |-> partyLevel - 2, max |-> partyLevel + 1]
    [] difficulty = "severe"   -> [min |-> partyLevel - 1, max |-> partyLevel + 2]
    [] difficulty = "extreme"  -> [min |-> partyLevel, max |-> partyLevel + 4]
    [] OTHER                   -> [min |-> partyLevel - 2, max |-> partyLevel + 2]

\* CREATURE_XP_BY_LEVEL_DIFF[clampedDiff] || 40
getCreatureXP(creatureLevel, partyLevel) ==
  LET diff == creatureLevel - partyLevel
      clampedDiff == Max(-4, Min(4, diff))
      xp == CREATURE_XP_BY_LEVEL_DIFF[clampedDiff]
  IN  IF xp = 0 THEN 40 ELSE xp

\* a record of the search result as buildEncounter reads it
FoundCreature(name, level) == [name |-> name, level |-> level]

CreatureSuggestion(name, level, xp) == [name |-> name, level |-> level, xp |-> xp]

\* results.filter(c => c.level === level)
RECURSIVE OfLevel(_, _)
OfLevel(results, level) ==
  IF results = <<>> THEN <<>>
  ELSE IF Head(results).level = level
       THEN <<Head(results)>> \o OfLevel(Tail(results), level)
       ELSE OfLevel(Tail(results), level)

\* .slice(0, 5).map(c => ({name, level, xp: getCreatureXP(level, partyLevel), ...}))
LevelCreatures(results, level, partyLevel) ==
  LET found == OfLevel(results, level)
      kept == SubSeq(found, 1, Min(5, Len(found)))
  IN  [i \in 1..Len(kept) |->
         CreatureSuggestion(kept[i].name, kept[i].level, getCreatureXP(level, partyLevel))]

\* the loop over the level range: one search per level, a failed search is
\* skipped and the loop goes on
RECURSIVE GatherCreatures(_, _, _, _, _)
GatherCreatures(level, max, results, failing, partyLevel) ==
  IF level > max THEN <<>>
  ELSE (IF level \in failing THEN <<>> ELSE LevelCreatures(results, level, partyLevel))
       \o GatherCreatures(level + 1, max, results, failing, partyLevel)

\* [...creatures].sort((a, b) => b.level - a.level), a stable sort
InsertByLevel(sorted, c) ==
  LET n == Cardinality({ i \in 1..Len(sorted) : sorted[i].level >= c.level })
  IN  SubSeq(sorted, 1, n) \o <<c>> \o SubSeq(sorted, n + 1, Len(sorted))

RECURSIVE SortByLevel(_)
SortByLevel(creatures) ==
  IF creatures = <<>> THEN <<>>
  ELSE InsertByLevel(SortByLevel(SubSeq(creatures, 1, Len(creatures) - 1)),
                     creatures[Len(creatures)])

\* xp >= xpBudget * 0.8 && xp <= xpBudget * 1.2
InBand(xp, xpBudget) == 5 * xp >= 4 * xpBudget /\ 5 * xp <= 6 * xpBudget

SuggestionEntry(count, creature) == [count |-> count, creature |-> creature]

EncounterSuggestion(creatures, totalXP) == [creatures |-> creatures, totalXP |-> totalXP]

\* single creature encounters and pairs of the same creature
RECURSIVE CopiesOf(_, _, _)
CopiesOf(sorted, count, xpBudget) ==
  IF sorted = <<>> THEN <<>>
  ELSE LET creature == Head(sorted)
           totalXP == creature.xp * count
       IN  (IF InBand(totalXP, xpBudget)
            THEN << EncounterSuggestion(<<SuggestionEntry(count, creature)>>, totalXP) >>
            ELSE <<>>)
           \o CopiesOf(Tail(sorted), count, xpBudget)

\* one boss with one kind of minion
BossWithMinions(boss, minion, xpBudget) ==
  LET remainingXP == xpBudget - boss.xp
      minionCount == remainingXP \div minion.xp
      totalXP == boss.xp + (minion.xp * minionCount)
  IN  IF /\ remainingXP > 0
         /\ minionCount >= 1
         /\ minionCount <= 6
         /\ InBand(totalXP, xpBudget)
      THEN << EncounterSuggestion(<<SuggestionEntry(1, boss),
                                    SuggestionEntry(minionCount, minion)>>, totalXP) >>
      ELSE <<>>

\* for (const boss of bosses) for (const minion of minions), from pair k on
RECURSIVE BossPatterns(_, _, _, _)
BossPatterns(bosses, minions, k, xpBudget) ==
  IF k >= Len(bosses) * Len(minions) THEN <<>>
  ELSE BossWithMinions(bosses[(k \div Len(minions)) + 1],
                       minions[(k % Len(minions)) + 1], xpBudget)
       \o BossPatterns(bosses, minions, k + 1, xpBudget)

RECURSIVE AtOrAbove(_, _)
AtOrAbove(sorted, partyLevel) ==
  IF sorted = <<>> THEN <<>>
  ELSE (IF Head(sorted).level >= partyLevel THEN <<Head(sorted)>> ELSE <<>>)
       \o AtOrAbove(Tail(sorted), partyLevel)

RECURSIVE Below(_, _)
Below(sorted, partyLevel) ==
  IF sorted = <<>> THEN <<>>
  ELSE (IF Head(sorted).level < partyLevel THEN <<Head(sorted)>> ELSE <<>>)
       \o Below(Tail(sorted), partyLevel)

Distance(totalXP, xpBudget) ==
  IF totalXP >= xpBudget THEN totalXP - xpBudget ELSE xpBudget - totalXP

\* .sort((a, b) => Math.abs(b.totalXP - xpBudget) - Math.abs(a.totalXP - xpBudget)):
\* a comes first when its distance is the larger one; the sort is stable
InsertByDistance(sorted, s, xpBudget) ==
  LET n == Cardinality({ i \in 1..Len(sorted) :
                           Distance(sorted[i].totalXP, xpBudget) >= Distance(s.totalXP, xpBudget) })
  IN  SubSeq(sorted, 1, n) \o <<s>> \o SubSeq(sorted, n + 1, Len(sorted))

RECURSIVE SortByDistance(_, _)
SortByDistance(suggestions, xpBudget) ==
  IF suggestions = <<>> THEN <<>>
  ELSE InsertByDistance(SortByDistance(SubSeq(suggestions, 1, Len(suggestions) - 1), xpBudget),
                        suggestions[Len(suggestions)], xpBudget)

\* the suggestions before the final sort and slice
CandidateSuggestions(creatures, xpBudget, partyLevel) ==
  LET sortedCreatures == SortByLevel(creatures)
      bosses == AtOrAbove(sortedCreatures, partyLevel)
      minions == Below(sortedCreatures, partyLevel)
  IN  CopiesOf(sortedCreatures, 1, xpBudget)
      \o CopiesOf(sortedCreatures, 2, xpBudget)
      \o BossPatterns(bosses, minions, 0, xpBudget)

buildEncounterSuggestions(creatures, xpBudget, partyLevel) ==
  LET sorted == SortByDistance(CandidateSuggestions(creatures, xpBudget, partyLevel), xpBudget)
  IN  SubSeq(sorted, 1, Min(5, Len(sorted)))

\* the text of the answer, line by line; a line is its kind and its values
OptionLines(suggestions, i) ==
  << <<"option", i, suggestions[i].totalXP>> >>
  \o [j \in 1..Len(suggestions[i].creatures) |->
        LET entry == suggestions[i].creatures[j]
        IN  <<"entry", entry.count, entry.creature.name, entry.creature.level,
              entry.creature.xp>>]

RECURSIVE SuggestionLines(_, _)
SuggestionLines(suggestions, i) ==
  IF i > Len(suggestions) THEN <<>>
  ELSE OptionLines(suggestions, i) \o SuggestionLines(suggestions, i + 1)

\* creatures of one level: the XP of the first, the names of the first five
LevelLines(creatures, level) ==
  LET group == OfLevel(creatures, level)
      shown == SubSeq(group, 1, Min(5, Len(group)))
  IN  IF group = <<>> THEN <<>>
      ELSE << <<"level", level, group[1].xp>> >>
           \o [j \in 1..Len(shown) |-> <<"creature", shown[j].name>>]

\* the levels that have creatures, highest first
RECURSIVE CreatureLines(_, _, _)
CreatureLines(creatures, level, lowest) ==
  IF level < lowest THEN <<>>
  ELSE LevelLines(creatures, level) \o CreatureLines(creatures, level - 1, lowest)

formatEncounterOutput(data) ==
  << <<"title", data.difficulty>>,
     <<"party", data.partyLevel, data.partySize>>,
     <<"budget", data.xpBudget>> >>
  \o (IF Len(data.suggestions) > 0
      THEN << <<"suggested">> >> \o SuggestionLines(data.suggestions, 1)
      ELSE << <<"available">> >> \o CreatureLines(data.creatures, data.partyLevel + 4,
                                            data.partyLevel - 4))
  \o << <<"footer">> >>

\* the data buildEncounter hands to formatEncounterOutput
EncounterData(partyLevel, partySize, difficulty, results, failing) ==
  LET baseXP == XP_BUDGETS[difficulty]
      sizeAdjustment == (partySize - 4) * 20
      xpBudget == baseXP + sizeAdjustment
      levelRange == getLevelRange(partyLevel, difficulty)
      creatures == GatherCreatures(levelRange.min, levelRange.max, results, failing, partyLevel)
  IN  [partyLevel |-> partyLevel, partySize |-> partySize, difficulty |-> difficulty,
       xpBudget |-> xpBudget, creatures |-> creatures,
       suggestions |-> buildEncounterSuggestions(creatures, xpBudget, partyLevel)]

buildEncounter(partyLevel, partySize, difficulty, results, failing) ==
  LET data == EncounterData(partyLevel, partySize, difficulty, results, failing)
  IN  [data |-> data, text |-> formatEncounterOutput(data)]

(***************************************************************************)
(* Inputs of the retrieval operations                                      *)
(***************************************************************************)
CategoryInputs == { "spell", "weapon", "equipment", "creature", "siege-weapon", "bogus" }

QueryInputs ==
  { <<>>, <<" ", " ">>, <<"fireball">>, <<" ", "blade", " ">>,
    <<"what is the ", "fireball", " ", "spell", "?">>,
    <<"tell me about ", "the ", "power attack", " ", "feat">>,
    <<"spell">>, <<"spell", " ", "immunity">> }

NameInputs == { <<>>, <<" ", " ">>, <<"fireball">>, <<" ", "blade", " ">> }

FromInputs  == { -1, 0, 1, 250 }
SizeInputs  == { -1, 0, 1, 100, 1000, 1001 }
LevelInputs == { -1, 0, 1, 3, 5, 25, 26 }

CategoryListInputs ==
  { <<>>, <<"weapon">>, <<"weapon", "equipment">>, <<"creature", "weapon">>,
    <<"weapon", "bogus">>, <<"siege-weapon">>, <<"bogus", "nonsense">> }

(***************************************************************************)
(* State                                                                   *)
(***************************************************************************)
VARIABLES
  indexSize,   \* the number of bulk records the index holds
  pc,          \* "idle", "await" (a search request is in flight), "done"
  call,        \* the operation in progress and its arguments
  requests,    \* the requests the operation sent to the index, in order
  replies,     \* the index's answers to them, in order
  from,        \* getItemsByLevel: the pagination cursor
  allItems,    \* getItemsByLevel: the records accumulated so far
  outcome,     \* how the operation ended: a return value or a thrown error
  craft,       \* the last call of calculateRequirements: arguments and result
  treasure,    \* the last call of calculateTreasureBudget: arguments and result
  encounter,   \* the last call of calculateEncounterXP: arguments and result
  tables,      \* the static reference tables of the rule calculators
  built        \* the last call of buildEncounter: arguments and answer

clientVars == <<indexSize, pc, call, requests, replies, from, allItems, outcome>>
ruleVars == <<treasure, encounter, tables, built>>
vars == <<indexSize, pc, call, requests, replies, from, allItems, outcome, craft,
          treasure, encounter, tables, built>>

Index == IndexOf(indexSize)

NoCall == [op |-> "", category |-> "", text |-> <<>>, from |-> 0, size |-> 0,
           level |-> 0, hasCats |-> FALSE, cats |-> <<>>]

\* no call of the calculator yet
NoCraft == <<>>
NoTreasure == <<>>
NoEncounter == <<>>
NoBuilt == <<>>

\* no result of a rule calculator is waiting for its caller
RulesIdle ==
  /\ craft = NoCraft
  /\ treasure = NoTreasure
  /\ encounter = NoEncounter
  /\ built = NoBuilt

\* the client right after construction, no call made yet
ClientIdle ==
  /\ pc = "idle"
  /\ call = NoCall
  /\ requests = <<>>
  /\ replies = <<>>
  /\ from = 0
  /\ allItems = <<>>
  /\ outcome = NoOutcome

Init ==
  /\ indexSize \in BulkSizes
  /\ ClientIdle
  /\ RulesIdle
  /\ tables = StaticTables

\* the operation ends without (further) I/O
Finish(o) ==
  /\ pc' = "done"
  /\ outcome' = o
  /\ UNCHANGED <<indexSize, requests, replies, from, allItems, craft, treasure, encounter, tables, built>>

\* await this.client.search(req)
Send(req, nextPc) ==
  /\ pc' = nextPc
  /\ requests' = Append(requests, req)
  /\ UNCHANGED <<indexSize, replies, outcome, craft, treasure, encounter, tables, built>>

\* the catch block drops the message of the error it caught
Wrap_mut(prefix, msg) == Thrown("Error", prefix)

\* the catch block: `Failed to ...: ${error.message}`
Wrap(prefix, msg) == Thrown("Error", prefix \o msg)

(***************************************************************************)
(* searchCategory                                                          *)
(***************************************************************************)
SearchPrefix(category) == <<"Failed to search ", category, ": ">>

SearchCategory(category, query) ==
  /\ pc = "idle"
  /\ call' = [NoCall EXCEPT !.op = "searchCategory", !.category = category, !.text = query]
  /\ IF ~validateCategory(category)
     THEN Finish(InvalidCategoryError(category))
     ELSE IF Trim(query) = <<>>
     THEN Finish(Thrown("Error", <<"Search query cannot be empty">>))
     ELSE /\ Send(SearchRequest(category, CleanQuery(query)), "await")
          /\ UNCHANGED <<from, allItems>>

SearchCategoryReply(reply) ==
  /\ pc = "await"
  /\ call.op = "searchCategory"
  /\ replies' = Append(replies, reply)
  /\ pc' = "done"
  /\ outcome' =
       IF reply.kind = "error" THEN Wrap(SearchPrefix(call.category), reply.msg)
       ELSE IF reply.kind = "malformed" THEN Wrap(SearchPrefix(call.category), InvalidResponse)
       ELSE Returned(NormalizeHits(reply.hits))
  /\ UNCHANGED <<indexSize, call, requests, from, allItems, craft, treasure, encounter, tables, built>>

(***************************************************************************)
(* getItem                                                                 *)
(***************************************************************************)
ItemPrefix(category) == <<"Failed to retrieve ", category, " item: ">>

\* exactSearch.hits?.hits && exactSearch.hits.hits.length > 0
HasHit(reply) == reply.kind = "hits" /\ Len(reply.hits) > 0

GetItem(category, name) ==
  /\ pc = "idle"
  /\ call' = [NoCall EXCEPT !.op = "getItem", !.category = category, !.text = name]
  /\ IF ~validateCategory(category)
     THEN Finish(InvalidCategoryError(category))
     ELSE IF Trim(name) = <<>>
     THEN Finish(Thrown("Error", <<"Item name cannot be empty">>))
     ELSE /\ Send(ExactRequest(category, Trim(name)), "await")
          /\ UNCHANGED <<from, allItems>>

\* the answer to the exact request
GetItemExactReply(reply) ==
  /\ pc = "await"
  /\ call.op = "getItem"
  /\ Len(requests) = 1
  /\ replies' = Append(replies, reply)
  /\ IF reply.kind = "error"
     THEN /\ pc' = "done"
          /\ outcome' = Wrap(ItemPrefix(call.category), reply.msg)
          /\ UNCHANGED requests
     ELSE IF HasHit(reply)
     THEN /\ pc' = "done"
          /\ outcome' = Returned(<<NormalizeExact(reply.hits[1])>>)
          /\ UNCHANGED requests
     ELSE /\ pc' = "await"
          /\ requests' = Append(requests, FuzzyRequest(call.category, Trim(call.text)))
          /\ UNCHANGED outcome
  /\ UNCHANGED <<indexSize, call, from, allItems, craft, treasure, encounter, tables, built>>

\* the answer to the fuzzy request
GetItemFuzzyReply(reply) ==
  /\ pc = "await"
  /\ call.op = "getItem"
  /\ Len(requests) = 2
  /\ replies' = Append(replies, reply)
  /\ pc' = "done"
  /\ outcome' =
       IF reply.kind = "error" THEN Wrap(ItemPrefix(call.category), reply.msg)
       ELSE IF ~HasHit(reply) THEN ReturnedNull
       ELSE Returned(<<NormalizeFuzzy(reply.hits[1])>>)
  /\ UNCHANGED <<indexSize, call, requests, from, allItems, craft, treasure, encounter, tables, built>>

(***************************************************************************)
(* getAllInCategory                                                        *)
(***************************************************************************)
AllPrefix(category) == <<"Failed to retrieve ", category, " items: ">>

\* if (from < 0) throw
FromRejected(f) == f < 0

\* the upper bound is taken as exclusive
SizeRejected_mut(sz) == sz <= 0 \/ sz >= maxSize

\* if (size <= 0 || size > 1000) throw
SizeRejected(sz) == sz <= 0 \/ sz > maxSize

GetAllInCategory(category, hasFrom, f, hasSize, sz) ==
  LET fromArg == IF hasFrom THEN f ELSE defaultFrom
      sizeArg == IF hasSize THEN sz ELSE defaultSize
  IN
  /\ pc = "idle"
  /\ call' = [NoCall EXCEPT !.op = "getAllInCategory", !.category = category,
                            !.from = fromArg, !.size = sizeArg]
  /\ IF ~validateCategory(category)
     THEN Finish(InvalidCategoryError(category))
     ELSE IF FromRejected(fromArg)
     THEN Finish(Thrown("Error", <<"Starting index cannot be negative">>))
     ELSE IF SizeRejected(sizeArg)
     THEN Finish(Thrown("Error", <<"Size must be between 1 and 1000">>))
     ELSE /\ Send(AllInCategoryRequest(category, fromArg, sizeArg), "await")
          /\ UNCHANGED <<from, allItems>>

GetAllInCategoryReply(reply) ==
  /\ pc = "await"
  /\ call.op = "getAllInCategory"
  /\ replies' = Append(replies, reply)
  /\ pc' = "done"
  /\ outcome' =
       IF reply.kind = "error" THEN Wrap(AllPrefix(call.category), reply.msg)
       ELSE IF reply.kind = "malformed" THEN Wrap(AllPrefix(call.category), InvalidResponse)
       ELSE Returned(NormalizeHits(reply.hits))
  /\ UNCHANGED <<indexSize, call, requests, from, allItems, craft, treasure, encounter, tables, built>>

(***************************************************************************)
(* getItemsByLevel                                                         *)
(***************************************************************************)
LevelPrefix(level) == <<"Failed to retrieve items of level ", ToString(level), ": ">>

\* if (level < 0 || level > 25) throw
LevelRejected(level) == level < minLevel \/ level > maxLevel

\* itemCategories.forEach(category => this.validateCategory(category)):
\* the position of the first category that does not pass, 0 if all pass
FirstInvalid(cats) ==
  LET bad == { i \in 1..Len(cats) : ~validateCategory(cats[i]) }
  IN  IF bad = {} THEN 0 ELSE CHOOSE i \in bad : \A j \in bad : i <= j

\* the catch block hands back the records gathered so far
LevelCatch_mut(level, e) == Returned(allItems)

\* what the catch block of getItemsByLevel throws for an error caught in
\* its try block
LevelCatch(level, e) == Wrap(LevelPrefix(level), e.msg)

\* a full page is taken as the last one
ShortPage_mut(items) == Len(items) <= pageSize

\* if (items.length < pageSize) hasMoreItems = false
ShortPage(items) == Len(items) < pageSize

GetItemsByLevel(level, hasCats, cats) ==
  /\ pc = "idle"
  /\ call' = [NoCall EXCEPT !.op = "getItemsByLevel", !.level = level,
                            !.hasCats = hasCats, !.cats = cats]
  /\ IF LevelRejected(level)
     THEN Finish(Thrown("Error", <<"Item level must be between 0 and 25">>))
     ELSE IF hasCats /\ Len(cats) > 0 /\ FirstInvalid(cats) # 0
     THEN Finish(LevelCatch(level, InvalidCategoryError(cats[FirstInvalid(cats)])))
     ELSE /\ Send(LevelRequest(level, hasCats, cats, 0), "await")
          /\ from' = 0
          /\ allItems' = <<>>

GetItemsByLevelReply(reply) ==
  /\ pc = "await"
  /\ call.op = "getItemsByLevel"
  /\ replies' = Append(replies, reply)
  /\ IF reply.kind = "error"
     THEN /\ pc' = "done"
          /\ outcome' = LevelCatch(call.level, reply)
          /\ UNCHANGED <<requests, from, allItems>>
     ELSE IF ~HasHit(reply)
     THEN \* no hits list, or an empty page: hasMoreItems = false
          /\ pc' = "done"
          /\ outcome' = Returned(allItems)
          /\ UNCHANGED <<requests, from, allItems>>
     ELSE LET items == NormalizeHits(reply.hits)
          IN  /\ allItems' = allItems \o items
              /\ IF ShortPage(items)
                 THEN /\ pc' = "done"
                      /\ outcome' = Returned(allItems \o items)
                      /\ UNCHANGED <<requests, from>>
                 ELSE /\ pc' = "await"
                      /\ from' = from + pageSize
                      /\ requests' = Append(requests,
                           LevelRequest(call.level, call.hasCats, call.cats, from + pageSize))
                      /\ UNCHANGED outcome
  /\ UNCHANGED <<indexSize, call, craft, treasure, encounter, tables, built>>

(***************************************************************************)
(* The caller takes the outcome; the client is ready for the next call     *)
(***************************************************************************)
Return ==
  /\ pc = "done"
  /\ pc' = "idle"
  /\ call' = NoCall
  /\ requests' = <<>>
  /\ replies' = <<>>
  /\ from' = 0
  /\ allItems' = <<>>
  /\ outcome' = NoOutcome
  /\ UNCHANGED <<indexSize, craft, treasure, encounter, tables, built>>

\* the request in flight
Pending == requests[Len(requests)]

\* what the index can answer now
PendingReplies == IF pc = "await" THEN Replies(Index, Pending) ELSE {}

Next ==
  \/ \E c \in CategoryInputs, q \in QueryInputs : SearchCategory(c, q)
  \/ \E r \in PendingReplies : SearchCategoryReply(r)
  \/ \E c \in CategoryInputs, n \in NameInputs : GetItem(c, n)
  \/ \E r \in PendingReplies : GetItemExactReply(r)
  \/ \E r \in PendingReplies : GetItemFuzzyReply(r)
  \/ \E c \in CategoryInputs, hf \in BOOLEAN, f \in FromInputs,
        hs \in BOOLEAN, sz \in SizeInputs : GetAllInCategory(c, hf, f, hs, sz)
  \/ \E r \in PendingReplies : GetAllInCategoryReply(r)
  \/ \E l \in LevelInputs, hc \in BOOLEAN, cs \in CategoryListInputs :
        GetItemsByLevel(l, hc, IF hc THEN cs ELSE <<>>)
  \/ \E r \in PendingReplies : GetItemsByLevelReply(r)
  \/ Return

Spec == Init /\ [][Next]_vars

(***************************************************************************)
(* The crafting calculator as a machine: a call stores its arguments and   *)
(* its result, the caller takes the result                                 *)
(***************************************************************************)
\* the largest number of rush days a caller asks for
MaxRushInput == 4

Proficiencies == { "untrained", "trained", "expert", "master", "legendary" }

NoTraits == [has |-> FALSE, set |-> {}]
Traits(set) == [has |-> TRUE, set |-> set]

TraitInputs ==
  { NoTraits, Traits({}), Traits({"common"}), Traits({"uncommon"}), Traits({"rare"}),
    Traits({"unique"}), Traits({"consumable"}), Traits({"consumable", "rare"}),
    Traits({"uncommon", "unique"}) }

PriceInputs ==
  { PriceUndef, PriceNum(12),
    PriceStr(<<Num(10), Word("gp")>>),
    PriceStr(<<Num(3), Word("sp")>>),
    PriceStr(<<Num(7), Word("cp")>>),
    PriceStr(<<Num(1), Word("gp"), Num(5), Word("sp")>>),
    PriceStr(<<Num(15)>>),
    PriceStr(<<Word("-")>>) }

CraftCategoryInputs ==
  { <<"weapon">>, <<"potion">>, <<"snare">>, <<"scroll">>, <<"spell">>,
    <<"alchemical", "-", "bomb">>, <<>> }

FeatInputs == { {}, {"Magical Crafting"}, {"Magical Crafting", "Scroll Crafting"} }

\* items of every level and rarity, with every way of crafting them
LevelInputsOfCraft ==
  { <<CraftItem(<<"weapon">>, TRUE, l, PriceStr(<<Num(10), Word("gp")>>), t.has, t.set),
      CraftingOptions(cl, p, {"Magical Crafting"}, cx, r)>> :
      l \in minLevel..maxLevel, t \in TraitInputs, cl \in {3, 10},
      p \in Proficiencies, cx \in BOOLEAN, r \in 0..MaxRushInput }

\* items of every price shape and category
PriceInputsOfCraft ==
  { <<CraftItem(c, hl, 1, pr, TRUE, {"common"}),
      CraftingOptions(5, "expert", f, FALSE, r)>> :
      c \in CraftCategoryInputs, hl \in BOOLEAN, pr \in PriceInputs,
      f \in FeatInputs, r \in {0, 1} }

\* crafters of every level and proficiency
CrafterInputsOfCraft ==
  { <<CraftItem(<<"weapon">>, TRUE, 1, PriceStr(<<Num(10), Word("gp")>>), TRUE, {"common"}),
      CraftingOptions(cl, p, {"Magical Crafting"}, FALSE, 0)>> :
      cl \in 1..20, p \in Proficiencies }

CraftInputs == LevelInputsOfCraft \cup PriceInputsOfCraft \cup CrafterInputsOfCraft

CalculateRequirements(item, options) ==
  /\ craft = NoCraft
  /\ craft' = << [item |-> item, options |-> options,
                  result |-> calculateRequirements(item, options)] >>
  /\ UNCHANGED <<clientVars, ruleVars>>

CraftTaken ==
  /\ craft # NoCraft
  /\ craft' = NoCraft
  /\ UNCHANGED <<clientVars, ruleVars>>

CalcInit ==
  /\ indexSize = 0
  /\ ClientIdle
  /\ RulesIdle
  /\ tables = StaticTables

CalcNext ==
  \/ \E a \in CraftInputs : CalculateRequirements(a[1], a[2])
  \/ CraftTaken

CalcSpec == CalcInit /\ [][CalcNext]_vars

(***************************************************************************)
(* The rule calculators as a machine.  Every call runs to completion (no   *)
(* calculator awaits anything), so an interleaving of calls is a sequence  *)
(* of calls: a call reads the tables, stores its arguments and its result, *)
(* writes what its code writes to the tables, and the caller takes the     *)
(* result.                                                                 *)
(***************************************************************************)
\* the largest party a caller asks about
MaxPartySize == 8

\* levels inside and outside the treasure table
BudgetLevelInputs == (-1..21) \cup {25, 99}

PartySizeInputs == 0..MaxPartySize

\* an argument left out takes its default: partySize = 4, isSandbox = false
SizeOrDefault(hasSize, partySize) == IF hasSize THEN partySize ELSE 4
SandboxOrDefault(hasSandbox, isSandbox) == hasSandbox /\ isSandbox

CalculateTreasureBudget(partyLevel, hasSize, partySize, hasSandbox, isSandbox) ==
  LET size == SizeOrDefault(hasSize, partySize)
      sandbox == SandboxOrDefault(hasSandbox, isSandbox)
  IN /\ RulesIdle
     /\ treasure' = << [partyLevel |-> partyLevel, partySize |-> size,
                        isSandbox |-> sandbox,
                        result |-> calculateTreasureBudgetOf(tables.TREASURE_BY_LEVEL,
                                     partyLevel, size, sandbox)] >>
     /\ tables' = TablesAfterBudget(tables, partyLevel, size, sandbox)
     /\ UNCHANGED <<clientVars, craft, encounter, built>>

ThreatTypes == { "creature", "simple_hazard", "complex_hazard" }

\* one threat of every kind, of every level around a party of level 5
SingleThreatInputs ==
  { <<ThreatEntry("a", l, c, t)>> : l \in -1..11, c \in 0..3, t \in ThreatTypes }

PairThreats ==
  { ThreatEntry("a", 5, 1, "creature"), ThreatEntry("b", 3, 2, "creature"),
    ThreatEntry("c", 7, 1, "complex_hazard"), ThreatEntry("d", 1, 1, "simple_hazard"),
    ThreatEntry("e", 5, 1, "simple_hazard"), ThreatEntry("f", 9, 1, "creature") }

ThreatInputs ==
  {<<>>} \cup SingleThreatInputs \cup { <<a, b>> : a \in PairThreats, b \in PairThreats }

CalculateEncounterXP(partyLevel, hasSize, partySize, threats) ==
  LET size == SizeOrDefault(hasSize, partySize) IN
  /\ RulesIdle
  /\ encounter' = << [partyLevel |-> partyLevel, partySize |-> size,
                      threats |-> threats,
                      result |-> calculateEncounterXPOf(tables, partyLevel, size, threats)] >>
  /\ tables' = TablesAfterEncounter(tables, partyLevel, size, threats)
  /\ UNCHANGED <<clientVars, craft, treasure, built>>

\* calculateRequirements next to the other calculators
CalculateRequirementsShared(item, options) ==
  /\ RulesIdle
  /\ craft' = << [item |-> item, options |-> options,
                  result |-> calculateRequirements(item, options)] >>
  /\ tables' = TablesAfterCraft(tables, item, options)
  /\ UNCHANGED <<clientVars, treasure, encounter, built>>

\* what the creature search of one call of buildEncounter answers, the same
\* list at every level of the range: nothing, one creature of every level
\* -1..9, two of every level, or seven creatures of level 5 with two of
\* level 3 and two of level 4
OnePerLevel == [i \in 1..11 |-> FoundCreature(i, i - 2)]
TwoPerLevel == [i \in 1..22 |-> FoundCreature(i, ((i - 1) % 11) - 1)]
SevenOfALevel ==
  [i \in 1..11 |-> FoundCreature(i, IF i <= 7 THEN 5 ELSE IF i <= 9 THEN 3 ELSE 4)]
SearchResultInputs == { <<>>, OnePerLevel, TwoPerLevel, SevenOfALevel }

\* the levels whose search fails: none, the party's level, or all of them
FailingInputs(partyLevel) ==
  { {}, {partyLevel}, (partyLevel - 4)..(partyLevel + 4) }

\* a call of buildEncounter; the searches it awaits are answered by the
\* index, the rest of the call touches only its own locals
BuildEncounter(partyLevel, hasSize, partySize, difficulty, results, failing) ==
  LET size == SizeOrDefault(hasSize, partySize) IN
  /\ RulesIdle
  /\ built' = << [partyLevel |-> partyLevel, partySize |-> size,
                  difficulty |-> difficulty, results |-> results, failing |-> failing,
                  result |-> buildEncounter(partyLevel, size, difficulty, results, failing)] >>
  /\ UNCHANGED <<clientVars, craft, treasure, encounter, tables>>

\* the caller takes the result of the call
ResultTaken ==
  /\ ~RulesIdle
  /\ craft' = NoCraft
  /\ treasure' = NoTreasure
  /\ encounter' = NoEncounter
  /\ built' = NoBuilt
  /\ UNCHANGED <<clientVars, tables>>

RulesInit ==
  /\ indexSize = 0
  /\ ClientIdle
  /\ craft = NoCraft
  /\ treasure = NoTreasure
  /\ encounter = NoEncounter
  /\ built = NoBuilt
  /\ tables = StaticTables

RulesNext ==
  \/ \E l \in BudgetLevelInputs, hs \in BOOLEAN, s \in PartySizeInputs,
        hb \in BOOLEAN, b \in BOOLEAN : CalculateTreasureBudget(l, hs, s, hb, b)
  \/ \E l \in {1, 5}, hs \in BOOLEAN, s \in PartySizeInputs, ts \in ThreatInputs :
        CalculateEncounterXP(l, hs, s, ts)
  \/ \E a \in CrafterInputsOfCraft : CalculateRequirementsShared(a[1], a[2])
  \/ \E l \in {1, 5}, hs \in BOOLEAN, s \in PartySizeInputs, d \in Difficulties,
        r \in SearchResultInputs :
        \E f \in FailingInputs(l) : BuildEncounter(l, hs, s, d, r, f)
  \/ ResultTaken

RulesSpec == RulesInit /\ [][RulesNext]_vars

(***************************************************************************)
(* Properties of the retrieval client                                      *)
(***************************************************************************)
\* a string with nothing but whitespace in it
Blank(s) == \A i \in 1..Len(s) : s[i] = " "

\* the same record of the index, whatever normalization did to it
SameRecord(a, b) ==
  /\ a.id = b.id
  /\ a.name = b.name
  /\ a.category = b.category
  /\ a.level = b.level

\* the records of the index that satisfy the term clauses of a request
Matching(req) == SelectSeq(Index, LAMBDA r : StructMatches(r, req))

InFlightOrDone == pc \in {"await", "done"}

\* C1: getItem with a valid category and a non-blank name sends the exact
\* phrase request first, sends the fuzzy AND request only when the exact
\* request brought back no hit, and never sends a third request; it returns
\* the first exact hit if there is one, else the first fuzzy hit if there is
\* one, else null, which is a normal return.
C1_GetItemExactThenFuzzy ==
  (InFlightOrDone /\ call.op = "getItem" /\ call.category \in targets /\ ~Blank(call.text))
  => /\ Len(requests) \in {1, 2}
     /\ requests[1].textKind = "phrase"
     /\ requests[1].category_in = {call.category}
     /\ Len(requests) = 2
          => /\ requests[2].textKind = "fuzzy_and"
             /\ requests[2].category_in = {call.category}
             /\ replies[1].kind # "error"
             /\ Len(replies[1].hits) = 0
     /\ (Len(replies) >= 1 /\ Len(replies[1].hits) > 0)
          => /\ pc = "done"
             /\ Len(requests) = 1
             /\ outcome.kind = "ok"
             /\ Len(outcome.items) = 1
             /\ SameRecord(outcome.items[1], replies[1].hits[1])
     /\ (Len(replies) = 2 /\ Len(replies[2].hits) > 0)
          => /\ pc = "done"
             /\ outcome.kind = "ok"
             /\ Len(outcome.items) = 1
             /\ SameRecord(outcome.items[1], replies[2].hits[1])
     /\ (Len(replies) = 2 /\ replies[2].kind # "error" /\ Len(replies[2].hits) = 0)
          => /\ pc = "done"
             /\ outcome = ReturnedNull

\* getItem found nothing exact and returned the fuzzy hit
C1_Witness ==
  /\ pc = "done"
  /\ call.op = "getItem"
  /\ Len(requests) = 2
  /\ replies[1].kind = "hits"
  /\ outcome.kind = "ok"

\* C2: against an index that answers every page request of getItemsByLevel
\* with the hits of the request, where N records match the level and category
\* clauses: the requests have from = 0, 250, 500, ... and size 250, every page
\* but the last is full and the last is short, there are N div 250 + 1
\* requests, and the result is the N matching records, each once, in index
\* order.
C2_PagesUntilShortPage ==
  (InFlightOrDone /\ call.op = "getItemsByLevel" /\ requests # <<>>
     /\ \A i \in 1..Len(replies) : replies[i].kind = "hits")
  => LET all == Matching(requests[1])
         N   == Len(all)
     IN  /\ \A i \in 1..Len(requests) :
               /\ requests[i].from = (i - 1) * 250
               /\ requests[i].size = 250
               /\ requests[i].category_in = requests[1].category_in
               /\ requests[i].must_not = requests[1].must_not
               /\ requests[i].level = call.level
         /\ \A i \in 1..Len(replies) : i < Len(requests) => Len(replies[i].hits) = 250
         /\ pc = "done"
              => /\ Len(replies[Len(replies)].hits) < 250
                 /\ Len(requests) = (N \div 250) + 1
                 /\ outcome.kind = "ok"
                 /\ Len(outcome.items) = N
                 /\ \A k \in 1..N : SameRecord(outcome.items[k], all[k])

\* getItemsByLevel fetched two full pages and a short one
C2_Witness ==
  /\ pc = "done"
  /\ call.op = "getItemsByLevel"
  /\ Len(requests) = 3
  /\ \A i \in 1..Len(replies) : replies[i].kind = "hits"
  /\ Len(outcome.items) >= 500

\* C3: when a request to the index fails, the operation ends at once in a
\* failure whose message ends with the message of the index's error, and the
\* failed request is the last request of the operation.
C3_FailurePropagatesNoRetry ==
  \A i \in 1..Len(replies) :
    replies[i].kind = "error"
    => /\ i = Len(replies)
       /\ Len(requests) = i
       /\ pc = "done"
       /\ outcome.kind = "error"
       /\ IsSuffix(replies[i].msg, outcome.msg)
       /\ Len(outcome.msg) > Len(replies[i].msg)

\* the third page request of getItemsByLevel failed
C3_Witness ==
  /\ pc = "done"
  /\ call.op = "getItemsByLevel"
  /\ Len(replies) = 3
  /\ replies[3].kind = "error"

\* C4: searchCategory, getItem and getAllInCategory, called with a category
\* that is not in config.targets, fail with InvalidCategoryError and send no
\* request.
C4_InvalidCategoryNoIO ==
  (call.op \in {"searchCategory", "getItem", "getAllInCategory"}
     /\ call.category \notin targets)
  => /\ pc = "done"
     /\ outcome.kind = "error"
     /\ outcome.name = "InvalidCategoryError"
     /\ requests = <<>>

\* getAllInCategory was called with the category siege-weapon, which the
\* default list of getItemsByLevel names but config.targets does not
C4_Witness ==
  /\ pc = "done"
  /\ call.op = "getAllInCategory"
  /\ call.category = "siege-weapon"

\* C5: getItemsByLevel, called with a level in 0..25 and a category list that
\* holds a string not in config.targets, fails with InvalidCategoryError and
\* sends no request.
C5_LevelInvalidCategory ==
  (InFlightOrDone /\ call.op = "getItemsByLevel" /\ call.level \in 0..25
     /\ \E i \in 1..Len(call.cats) : call.cats[i] \notin targets)
  => /\ pc = "done"
     /\ outcome.kind = "error"
     /\ outcome.name = "InvalidCategoryError"
     /\ requests = <<>>

\* C6: with a valid category, searchCategory with a query that is blank and
\* getItem with a name that is blank fail with the empty-query and the
\* empty-name error, and send no request.
C6_BlankTextNoIO ==
  (call.op \in {"searchCategory", "getItem"} /\ call.category \in targets
     /\ Blank(call.text))
  => /\ pc = "done"
     /\ outcome.kind = "error"
     /\ outcome.msg = IF call.op = "searchCategory"
                      THEN <<"Search query cannot be empty">>
                      ELSE <<"Item name cannot be empty">>
     /\ requests = <<>>

\* getItem was called with a name of two blanks
C6_Witness ==
  /\ pc = "done"
  /\ call.op = "getItem"
  /\ call.category \in targets
  /\ call.text = <<" ", " ">>

\* C7: getAllInCategory (valid category) fails without a request when
\* from < 0 or size is outside 1..1000 and sends its request otherwise;
\* getItemsByLevel fails without a request when the level is outside 0..25
\* and is not rejected for its level otherwise.
C7_RangeChecks ==
  /\ (call.op = "getAllInCategory" /\ call.category \in targets)
     => IF call.from < 0 \/ call.size < 1 \/ call.size > 1000
        THEN /\ pc = "done"
             /\ outcome.kind = "error"
             /\ requests = <<>>
        ELSE /\ Len(requests) = 1
             /\ requests[1].from = call.from
             /\ requests[1].size = call.size
  /\ call.op = "getItemsByLevel"
     => IF call.level < 0 \/ call.level > 25
        THEN /\ pc = "done"
             /\ outcome.kind = "error"
             /\ outcome.msg = <<"Item level must be between 0 and 25">>
             /\ requests = <<>>
        ELSE /\ outcome.msg # <<"Item level must be between 0 and 25">>
             /\ (\A i \in 1..Len(call.cats) : call.cats[i] \in targets)
                  => Len(requests) >= 1

\* getAllInCategory took the largest size, getItemsByLevel the largest level
C7_Witness ==
  \/ /\ call.op = "getAllInCategory"
     /\ call.size = 1000
     /\ call.from = 0
     /\ Len(requests) = 1
  \/ /\ call.op = "getItemsByLevel"
     /\ call.level = 25
     /\ Len(requests) = 1

Crafted == craft # NoCraft
CraftArgs == craft[1].options
CraftResult == craft[1].result

\* the level-1 common weapon priced "10 gp"
IsLongsword(item) ==
  /\ item.category = <<"weapon">>
  /\ item.hasLevel
  /\ item.level = 1
  /\ item.price = PriceStr(<<Num(10), Word("gp")>>)
  /\ item.hasTraits
  /\ item.traits = {"common"}

C10_DCMonotone ==
  (Crafted /\ CraftArgs.rushDays = 0 /\ CraftResult.item.level \in 0..20)
  => LET l == CraftResult.item.level
         rarity == CraftResult.item.rarity
         dc == CraftResult.crafting.dc
     IN  /\ l > 0 => dc >= calculateDC(l - 1, rarity)
         /\ l < 20 => dc <= calculateDC(l + 1, rarity)
         /\ rarity = "common" => dc < calculateDC(l, "uncommon")
         /\ rarity = "uncommon" => dc > calculateDC(l, "common") /\ dc < calculateDC(l, "rare")
         /\ rarity = "rare" => dc > calculateDC(l, "uncommon") /\ dc < calculateDC(l, "unique")
         /\ rarity = "unique" => dc > calculateDC(l, "rare")

\* a unique item of level 20 was crafted without rushing: DC 50
C10_Witness ==
  /\ Crafted
  /\ CraftArgs.rushDays = 0
  /\ CraftResult.item.level = 20
  /\ CraftResult.item.rarity = "unique"
  /\ CraftResult.crafting.dc = 50

(***************************************************************************)
(* Properties of the treasure budget                                       *)
(***************************************************************************)
Budgeted == treasure # NoTreasure
BudgetArgs == treasure[1]
BudgetResult == treasure[1].result

\* the row of Table 10-9 for a level in 1..20
TableRow(level) == CHOOSE r \in Range(TREASURE_BY_LEVEL) : r.level = level

\* C11: for a party level in 1..20 the party currency of the budget is the
\* table's currency plus (size - 4) increments of currencyPerAdditionalPC,
\* plus one more increment for a sandbox campaign.  Level 5, size 4, no
\* sandbox: total value 1350, currency 320; level 10, size 6: 2000 + 2 * 500;
\* level 3, size 2: 120 - 2 * 30; level 6, size 4, sandbox: 500 + 125.
C11_CurrencyLinear ==
  (Budgeted /\ BudgetArgs.partyLevel \in 1..20)
  => LET l == BudgetArgs.partyLevel
         s == BudgetArgs.partySize
         b == BudgetArgs.isSandbox
         row == TableRow(l)
         got == BudgetResult.budget
     IN  /\ ~BudgetResult.null
         /\ got.partyCurrency =
              row.partyCurrency + (s - 4) * row.currencyPerAdditionalPC
                + (IF b THEN row.currencyPerAdditionalPC ELSE 0)
         /\ (s = 4 /\ ~b) => got.partyCurrency = row.partyCurrency
         /\ (s = 6 /\ ~b) => got.partyCurrency = row.partyCurrency + 2 * row.currencyPerAdditionalPC
         /\ (s = 2 /\ ~b) => got.partyCurrency = row.partyCurrency - 2 * row.currencyPerAdditionalPC
         /\ (l = 5 /\ s = 4 /\ ~b) => got.totalValue = 1350 /\ got.partyCurrency = 320
         /\ (l = 10 /\ s = 6 /\ ~b) => got.partyCurrency = 3000
         /\ (l = 3 /\ s = 2 /\ ~b) => got.partyCurrency = 60
         /\ (l = 6 /\ s = 4 /\ b) => got.partyCurrency = 625

\* a sandbox party of six at level 10: 2000 + 2 * 500 + 500
C11_Witness ==
  /\ Budgeted
  /\ BudgetArgs.partyLevel = 10
  /\ BudgetArgs.partySize = 6
  /\ BudgetArgs.isSandbox
  /\ ~BudgetResult.null
  /\ BudgetResult.budget.partyCurrency = 3500

\* C12: the budget is null exactly when the party level is outside 1..20,
\* whatever the party size and the sandbox flag; the call always returns.
C12_NullOutsideTable ==
  Budgeted => (BudgetResult.null <=> BudgetArgs.partyLevel \notin 1..20)

\* level 99 with a sandbox party of six: null
C12_Witness ==
  /\ Budgeted
  /\ BudgetArgs.partyLevel = 99
  /\ BudgetArgs.partySize = 6
  /\ BudgetArgs.isSandbox
  /\ BudgetResult.null

(***************************************************************************)
(* Properties of the encounter XP calculator                               *)
(***************************************************************************)
Encountered == encounter # NoEncounter
EncounterArgs == encounter[1]
EncounterResult == encounter[1].result

\* the XP of one threat by kind, for a level difference -4..4
CreatureXpByDiff == <<10, 15, 20, 30, 40, 60, 80, 120, 160>>
SimpleHazardXpByDiff == <<2, 3, 4, 6, 8, 12, 16, 24, 32>>

ExpectedXp(type, d) ==
  LET c == IF d > 4 THEN 4 ELSE IF d < -4 THEN -4 ELSE d
  IN  IF type = "simple_hazard" THEN SimpleHazardXpByDiff[c + 5]
      ELSE CreatureXpByDiff[c + 5]

RECURSIVE SumSeq(_)
SumSeq(s) == IF s = <<>> THEN 0 ELSE s[1] + SumSeq(Tail(s))

\* C13: every threat contributes count * XP(kind, d), d the level difference
\* to the party clamped to -4..4 (creature and complex hazard 10, 15, 20, 30,
\* 40, 60, 80, 120, 160; simple hazard 2, 3, 4, 6, 8, 12, 16, 24, 32), and
\* the total is the sum of the contributions.  A creature of the party's
\* level is worth 40 each whatever the party size; a difference beyond +4 or
\* -4 is worth what +4 or -4 is worth.
C13_ThreatXP ==
  Encountered
  => LET ts == EncounterArgs.threats
         pl == EncounterArgs.partyLevel
         xp == EncounterResult.threatXP
     IN  /\ Len(xp) = Len(ts)
         /\ \A i \in 1..Len(ts) :
              /\ xp[i].totalXP = ts[i].count * ExpectedXp(ts[i].type, ts[i].level - pl)
              /\ (ts[i].type = "creature" /\ ts[i].level = pl) => xp[i].xpPerUnit = 40
              /\ ts[i].level - pl > 4 => xp[i].xpPerUnit = ExpectedXp(ts[i].type, 4)
              /\ ts[i].level - pl < -4 => xp[i].xpPerUnit = ExpectedXp(ts[i].type, -4)
         /\ EncounterResult.totalXP =
              SumSeq([i \in 1..Len(ts) |->
                        ts[i].count * ExpectedXp(ts[i].type, ts[i].level - pl)])

\* a level-1 party meets a creature eight levels above it and two creatures
\* two levels above it: 160 + 2 * 80
C13_Witness ==
  /\ Encountered
  /\ EncounterArgs.partyLevel = 1
  /\ EncounterArgs.threats =
       <<ThreatEntry("f", 9, 1, "creature"), ThreatEntry("b", 3, 2, "creature")>>
  /\ EncounterResult.totalXP = 320

Tiers == <<"Trivial", "Low", "Moderate", "Severe", "Extreme">>
TierXp == <<40, 60, 80, 120, 160>>

\* C14: with the thresholds 40, 60, 80, 120, 160 each shifted by
\* (party size - 4) * 20, the difficulty is the lowest tier whose threshold
\* is not below the total XP, and DEADLY when the total exceeds the extreme
\* threshold.  A level-5 party of four against 40 + 2 * 20 = 80 XP: Moderate.
C14_Difficulty ==
  Encountered
  => LET T == EncounterResult.totalXP
         shift == (EncounterArgs.partySize - 4) * 20
         fits == { i \in 1..5 : T <= TierXp[i] + shift }
     IN  /\ EncounterResult.difficulty =
              IF T > TierXp[5] + shift THEN "DEADLY"
              ELSE Tiers[CHOOSE i \in fits : \A j \in fits : i <= j]
         /\ (EncounterArgs.partyLevel = 5 /\ EncounterArgs.partySize = 4
               /\ EncounterArgs.threats =
                    <<ThreatEntry("a", 5, 1, "creature"), ThreatEntry("b", 3, 2, "creature")>>)
            => (T = 80 /\ EncounterResult.difficulty = "Moderate")

\* the same 80 XP are Severe for a party of three
C14_Witness ==
  /\ Encountered
  /\ EncounterArgs.partyLevel = 5
  /\ EncounterArgs.partySize = 3
  /\ EncounterResult.totalXP = 80
  /\ EncounterResult.difficulty = "Severe"

C16_NoPartialResult ==
  (/\ call.op = "getItemsByLevel"
   /\ Len(replies) >= 2
   /\ replies[Len(replies)].kind = "error"
   /\ \A i \in 1..(Len(replies) - 1) : HasHit(replies[i]))
  => /\ pc = "done"
     /\ outcome.kind = "error"
     /\ outcome.items = <<>>

\* the first page came back full, the request of the second page failed
C16_Witness ==
  /\ call.op = "getItemsByLevel"
  /\ Len(replies) = 2
  /\ Len(replies[1].hits) = pageSize
  /\ Len(allItems) = pageSize
  /\ replies[2].kind = "error"
  /\ outcome.kind = "error"

\* C17: a response without a hits list makes the operation fail with an
\* error, in searchCategory, getItem, getAllInCategory and getItemsByLevel;
\* getItem does not return null for it and getItemsByLevel does not return
\* the records gathered so far.
C17_MalformedIsFailure ==
  (pc = "done" /\ \E i \in 1..Len(replies) : replies[i].kind = "malformed")
  => outcome.kind = "error"

(***************************************************************************)
(* Prerequisites, time and cost reduction of the crafting calculator       *)
(***************************************************************************)
\* the crafting time of the same call without rush days, in half days
UnrushedTime ==
  calculateCraftingTime(CraftResult.item.level, CraftArgs.characterLevel,
                        CraftArgs.useComplexCrafting, CraftResult.item.isConsumable,
                        0, CraftArgs.proficiency)

\* C18: rushing shortens the initial crafting time by at most
\* maxRushDays(proficiency) days (trained 0, expert 1, master 2,
\* legendary 3), in standard as in complex crafting.
C18_RushCapped ==
  (Crafted /\ CraftArgs.proficiency \in {"trained", "expert", "master", "legendary"})
  => LET p == CraftArgs.proficiency
         maxRushDays == CASE p = "trained" -> 0 [] p = "expert" -> 1
                          [] p = "master" -> 2 [] OTHER -> 3
     IN  UnrushedTime - CraftResult.crafting.initialDays <= DayUnits * maxRushDays

\* C19: the proficiency requirement is not met by an untrained crafter at
\* any item level, is met from item level 9 on only by master or legendary
\* and from item level 16 on only by legendary, and is met by a trained or
\* better crafter otherwise.
C19_ProficiencyRequirement ==
  Crafted
  => LET p == CraftArgs.proficiency
         l == CraftResult.item.level
     IN  CraftResult.prerequisites.meetsProficiencyRequirement
           <=> /\ p # "untrained"
               /\ l >= 9 => p \in {"master", "legendary"}
               /\ l >= 16 => p = "legendary"

\* C20: for a character of level 1..20 the daily cost reduction of a
\* critical success is strictly above that of a success, whatever the
\* proficiency.
C20_CriticalStrictlyBetter ==
  (Crafted /\ CraftArgs.characterLevel \in 1..20)
  => CraftResult.crafting.criticalDailyReduction > CraftResult.crafting.dailyReduction

(***************************************************************************)
(* Price parsing of the crafting calculator                                *)
(***************************************************************************)
\* the value of one unit in 1/200 gp: 100 cp = 10 sp = 1 gp
UnitValue(unit) ==
  CASE unit = "cp" -> GpUnits \div 100
    [] unit = "sp" -> GpUnits \div 10
    [] OTHER -> GpUnits

\* the total of the '<n> <unit>' components of a price string, in 1/200 gp
ComponentTotal(s) ==
  SumSeq([i \in 1..Len(s) |->
            IF i < Len(s) /\ s[i].w = "#" /\ s[i + 1].w \in {"cp", "sp", "gp"}
            THEN s[i].n * UnitValue(s[i + 1].w) ELSE 0])

\* C21: a price string made of '<n> <unit>' components parses to the total
\* of its components in gp ('1 gp 5 sp' is 1.5 gp); a single '<n> gp',
\* '<n> sp' or '<n> cp' parses to n, n/10 or n/100; a bare number is taken
\* as gp; a missing or unparseable price is 0.
C21_MixedUnitPrice ==
  Crafted
  => LET price == craft[1].item.price
         parsed == CraftResult.item.price
     IN  /\ price.t = "undef" => parsed = 0
         /\ price.t = "str" =>
              parsed = IF UnitMatch(price.s) # 0 THEN ComponentTotal(price.s)
                       ELSE IF NumericMatch(price.s) # 0
                       THEN price.s[NumericMatch(price.s)].n * GpUnits
                       ELSE 0

(***************************************************************************)
(* Complex crafting                                                        *)
(***************************************************************************)
\* C22: with complex crafting the base time is 4 / 6 days (consumable /
\* permanent) for an item of the character's level or above, 3 / 5 for an
\* item one or two levels below, 2 / 4 for an item three or more levels
\* below; it is reduced by min(rushDays, maxRushDays(proficiency)); a
\* consumable reduced to 0 days or below takes half a day; the initial time
\* is always above 0.
C22_ComplexCraftingTime ==
  (Crafted /\ CraftArgs.useComplexCrafting)
  => LET p == CraftArgs.proficiency
         below == CraftArgs.characterLevel - CraftResult.item.level
         consumable == CraftResult.item.isConsumable
         base == IF below <= 0 THEN (IF consumable THEN 4 ELSE 6)
                 ELSE IF below <= 2 THEN (IF consumable THEN 3 ELSE 5)
                 ELSE (IF consumable THEN 2 ELSE 4)
         maxRushDays == CASE p = "trained" -> 0 [] p = "expert" -> 1
                          [] p = "master" -> 2 [] OTHER -> 3
         reduced == base - Min(CraftArgs.rushDays, maxRushDays)
     IN  /\ CraftResult.crafting.initialDays > 0
         /\ p \in {"trained", "expert", "master", "legendary"} =>
              CraftResult.crafting.initialDays =
                IF consumable /\ reduced <= 0 THEN DayUnits \div 2
                ELSE DayUnits * reduced

\* a legendary crafter of level 10 rushed a low-level consumable by three
\* days: 2 - 3 days became the four-hour craft
C22_Witness ==
  /\ Crafted
  /\ CraftArgs.useComplexCrafting
  /\ CraftArgs.proficiency = "legendary"
  /\ CraftArgs.characterLevel = 10
  /\ CraftArgs.rushDays = 3
  /\ CraftResult.item.isConsumable
  /\ CraftResult.item.level = 3
  /\ CraftResult.crafting.initialDays = DayUnits \div 2

(***************************************************************************)
(* Quantities, frame and sign of the treasure budget                       *)
(***************************************************************************)
\* the integer nearest to n / 4, a half rounding up
NearestQuarter(n) == CHOOSE k \in 0..(n + 1) : 4 * k - 2 <= n /\ n < 4 * k + 2

\* what the claimed scaling makes of a table quantity for a party size
ScaledQuantity(quantity, partySize) ==
  IF 100 * partySize <= 75 * 4 \/ 100 * partySize >= 125 * 4
  THEN LET r == NearestQuarter(quantity * partySize) IN IF r < 1 THEN 1 ELSE r
  ELSE quantity

\* C23: the quantity of every permanent and consumable entry is scaled only
\* when partySize / 4 is <= 0.75 or >= 1.25, to max(1, round(quantity *
\* partySize / 4)) with halves rounding up, and is the table's quantity
\* otherwise; under sandbox the first two consumable entries then get one
\* more each; the sandbox flag changes no permanent quantity.
C23_ItemQuantities ==
  (Budgeted /\ ~BudgetResult.null)
  => LET s == BudgetArgs.partySize
         row == TableRow(BudgetArgs.partyLevel)
         got == BudgetResult.budget
     IN  /\ Len(got.permanentItems) = Len(row.permanentItems)
         /\ Len(got.consumables) = Len(row.consumables)
         /\ \A i \in 1..Len(row.permanentItems) :
              got.permanentItems[i].quantity =
                ScaledQuantity(row.permanentItems[i].quantity, s)
         /\ \A i \in 1..Len(row.consumables) :
              got.consumables[i].quantity =
                ScaledQuantity(row.consumables[i].quantity, s)
                  + (IF BudgetArgs.isSandbox /\ i <= 2 THEN 1 ELSE 0)

\* a sandbox party of six at level 1: permanent 2, 2 become 3, 3; consumables
\* 2, 3 become 3, 4.5 rounded up to 5, and one more each
C23_Witness ==
  /\ Budgeted
  /\ BudgetArgs.partyLevel = 1
  /\ BudgetArgs.partySize = 6
  /\ BudgetArgs.isSandbox
  /\ BudgetResult.budget.permanentItems = <<Entry(2, 3), Entry(1, 3)>>
  /\ BudgetResult.budget.consumables = <<Entry(2, 4), Entry(1, 6)>>

\* C24: for a level in 1..20, a party of 1..8 and either sandbox flag the
\* budget has the table's level, total value and currencyPerAdditionalPC
\* (level 10 with 5 players: 8000), and as many permanent and consumable
\* entries as the table, of the same item levels.
C24_BudgetFrame ==
  (Budgeted /\ BudgetArgs.partyLevel \in 1..20 /\ BudgetArgs.partySize \in 1..8)
  => LET row == TableRow(BudgetArgs.partyLevel)
         got == BudgetResult.budget
     IN  /\ ~BudgetResult.null
         /\ got.level = row.level
         /\ got.totalValue = row.totalValue
         /\ got.currencyPerAdditionalPC = row.currencyPerAdditionalPC
         /\ Len(got.permanentItems) = Len(row.permanentItems)
         /\ Len(got.consumables) = Len(row.consumables)
         /\ \A i \in 1..Len(row.permanentItems) :
              got.permanentItems[i].level = row.permanentItems[i].level
         /\ \A i \in 1..Len(row.consumables) :
              got.consumables[i].level = row.consumables[i].level
         /\ (BudgetArgs.partyLevel = 10 /\ BudgetArgs.partySize = 5) => got.totalValue = 8000

\* a sandbox party of five at level 10: total value 8000, entries of levels
\* 11, 10 and 11, 10, 9
C24_Witness ==
  /\ Budgeted
  /\ BudgetArgs.partyLevel = 10
  /\ BudgetArgs.partySize = 5
  /\ BudgetArgs.isSandbox
  /\ BudgetResult.budget.totalValue = 8000
  /\ BudgetResult.budget.permanentItems = <<Entry(11, 3), Entry(10, 3)>>
  /\ BudgetResult.budget.consumables = <<Entry(11, 4), Entry(10, 4), Entry(9, 3)>>

\* C30: for a level in 1..20, a party of 1..8 and either sandbox flag the
\* party currency of the budget is strictly positive.
C30_CurrencyPositive ==
  (Budgeted /\ BudgetArgs.partyLevel \in 1..20 /\ BudgetArgs.partySize \in 1..8)
  => (~BudgetResult.null /\ BudgetResult.budget.partyCurrency > 0)

\* the smallest currency there is: a single character at level 1,
\* 40 - 3 * 10
C30_Witness ==
  /\ Budgeted
  /\ BudgetArgs.partyLevel = 1
  /\ BudgetArgs.partySize = 1
  /\ ~BudgetArgs.isSandbox
  /\ BudgetResult.budget.partyCurrency = 10

(***************************************************************************)
(* The empty encounter                                                     *)
(***************************************************************************)
\* C28: for a party of 1..8 an encounter without threats has 0 XP and is
\* Trivial.
C28_EmptyEncounterTrivial ==
  (Encountered /\ EncounterArgs.threats = <<>> /\ EncounterArgs.partySize \in 1..8)
  => (EncounterResult.totalXP = 0 /\ EncounterResult.difficulty = "Trivial")

(***************************************************************************)
(* The crafting DC over the item levels of the retrieval layer             *)
(***************************************************************************)
\* C29: without rush days the crafting DC of an item of level 1..25 is not
\* below the DC of the level before with the same rarity; an item above
\* level 20 never gets a lower DC than a level-20 item of its rarity.
C29_DCNonDecreasing ==
  (Crafted /\ CraftArgs.rushDays = 0 /\ CraftResult.item.level \in (minLevel + 1)..maxLevel)
  => LET l == CraftResult.item.level
         rarity == CraftResult.item.rarity
         dc == CraftResult.crafting.dc
     IN  /\ dc >= calculateDC(l - 1, rarity)
         /\ l > 20 => dc >= calculateDC(20, rarity)

(***************************************************************************)
(* The price of the returned records                                       *)
(***************************************************************************)
\* the record of the index that a returned record was made from
IndexRecord(item) ==
  LET idx == IndexOf(indexSize)
  IN  idx[CHOOSE i \in 1..Len(idx) : idx[i].id = item.id]

\* the operation returned records to its caller
ReturnedRecords ==
  /\ pc = "done"
  /\ call.op \in {"searchCategory", "getItem", "getAllInCategory", "getItemsByLevel"}
  /\ outcome.kind = "ok"

\* the text "<n> gp"
IsGpText(s) == Len(s) = 2 /\ s[1].w = "#" /\ s[2] = Word("gp")

\* C25 as stated: the price of every record returned by searchCategory,
\* getItem, getAllInCategory and getItemsByLevel is a string of the form
\* "<n> gp".
C25_PriceIsGpString ==
  ReturnedRecords
  => \A i \in 1..Len(outcome.items) :
       /\ outcome.items[i].price.t = "str"
       /\ IsGpText(outcome.items[i].price.s)

\* C25: the price of every record returned by searchCategory, getItem,
\* getAllInCategory and getItemsByLevel is a string: a numeric price n of the
\* index has become "n gp", a missing price has become the dash, and a price
\* that was a string is returned as it was.
C25_PriceNormalized ==
  ReturnedRecords
  => \A i \in 1..Len(outcome.items) :
       LET raw == IndexRecord(outcome.items[i]).price
           price == outcome.items[i].price
       IN  /\ price.t = "str"
           /\ raw.t = "num" => price.s = <<Num(raw.n), Word("gp")>>
           /\ raw.t = "undef" => price.s = <<Word("-")>>
           /\ raw.t = "str" => price.s = raw.s

\* one result holds a record whose price was a number, one whose price was
\* missing and one whose price was a string in another unit than gp
C25_Witness ==
  /\ ReturnedRecords
  /\ \E i \in 1..Len(outcome.items) :
       IndexRecord(outcome.items[i]).price.t = "num"
  /\ \E i \in 1..Len(outcome.items) :
       IndexRecord(outcome.items[i]).price.t = "undef"
  /\ \E i \in 1..Len(outcome.items) :
       /\ IndexRecord(outcome.items[i]).price.t = "str"
       /\ ~IsGpText(IndexRecord(outcome.items[i]).price.s)


(***************************************************************************)
(* The query cleaning of searchCategory                                    *)
(***************************************************************************)
\* a leading "What is the " or "Tell me about "
LeadingFiller(s) ==
  IF s # <<>> /\ s[1] \in {"what is the ", "tell me about "} THEN 1 ELSE 0

\* a trailing "spell" or "feat", with or without the question mark
TrailingFiller(s) ==
  IF s # <<>> /\ s[Len(s)] \in {"spell", "feat"} THEN 1
  ELSE IF Len(s) >= 2 /\ s[Len(s)] = "?" /\ s[Len(s) - 1] \in {"spell", "feat"} THEN 2
  ELSE 0

\* the query without its leading and trailing filler
WithoutFiller(s) ==
  LET rest == SubSeq(s, LeadingFiller(s) + 1, Len(s))
  IN  SubSeq(rest, 1, Len(rest) - TrailingFiller(rest))

\* C26: the text that searchCategory sends to the index is the query without
\* a leading "What is the " or "Tell me about " and without a trailing
\* "spell?" or "feat?", trimmed; every other part of the query, an
\* occurrence of "spell" or "feat" before the end included, is in the request
\* as it was in the query.
C26_OnlyFillerRemoved ==
  (InFlightOrDone /\ call.op = "searchCategory" /\ Len(requests) >= 1)
  => requests[1].text = Trim(WithoutFiller(call.text))


(***************************************************************************)
(* The suggestions of buildEncounter                                       *)
(***************************************************************************)
Built == built # NoBuilt
BuiltArgs == built[1]
BuiltData == built[1].result.data

\* a total XP within 80% to 120% of the budget
Qualifies(totalXP, xpBudget) == 5 * totalXP >= 4 * xpBudget /\ 5 * totalXP <= 6 * xpBudget

\* every combination that qualifies: one creature, two of the same creature,
\* or a boss at or above the party's level with as many minions of one kind
\* below it as the rest of the budget pays for, one to six
QualifyingCombinations(creatures, xpBudget, partyLevel) ==
  LET all == Range(creatures)
      single == { EncounterSuggestion(<<SuggestionEntry(1, c)>>, c.xp) : c \in all }
      pair == { EncounterSuggestion(<<SuggestionEntry(2, c)>>, 2 * c.xp) : c \in all }
      bossed ==
        { EncounterSuggestion(<<SuggestionEntry(1, bm[1]), SuggestionEntry(bm[3], bm[2])>>,
                              bm[1].xp + bm[3] * bm[2].xp) :
            bm \in { x \in all \X all \X (1..6) :
                       /\ x[1].level >= partyLevel
                       /\ x[2].level < partyLevel
                       /\ xpBudget > x[1].xp
                       /\ x[3] * x[2].xp <= xpBudget - x[1].xp
                       /\ (x[3] + 1) * x[2].xp > xpBudget - x[1].xp } }
  IN  { s \in single \cup pair \cup bossed : Qualifies(s.totalXP, xpBudget) }

\* C27: the suggestion list of buildEncounter holds at most 5 suggestions,
\* each with a total XP within 80% to 120% of the XP budget, and when more
\* than 5 combinations qualify, the 5 kept are those whose total XP is
\* closest to the budget: no combination left out is closer than one kept.
C27_ClosestSuggestionsKept ==
  Built =>
    LET xpBudget == BuiltData.xpBudget
        kept == Range(BuiltData.suggestions)
        qualifying == QualifyingCombinations(BuiltData.creatures, xpBudget,
                                             BuiltArgs.partyLevel)
    IN  /\ Len(BuiltData.suggestions) <= 5
        /\ \A s \in kept : Qualifies(s.totalXP, xpBudget)
        /\ Cardinality(qualifying) > 5 =>
             /\ Len(BuiltData.suggestions) = 5
             /\ kept \subseteq qualifying
             /\ \A s \in kept : \A c \in qualifying \ kept :
                  Distance(s.totalXP, xpBudget) <= Distance(c.totalXP, xpBudget)

====
